---- MODULE Spec2Model ----
(***************************************************************************)
(* Shift marketplace of edrota4-axum: the exchange-request handlers of     *)
(* src/src/handlers/marketplace_handler.rs run as concurrent request       *)
(* handlers against one PostgreSQL store ("ShiftRequests", "Shifts",       *)
(* "Roles", "UserRoles").                                                  *)
(*                                                                         *)
(* Granularity.  A handler is a sequence of awaited SQL statements; other  *)
(* handlers run between two awaits.  One action of the model is one        *)
(* awaited statement on the pool (autocommit), together with the local     *)
(* checks that follow it.  The statements issued between begin() and       *)
(* commit() of a handler are blind writes (WHERE id = $n / WHERE uuid =    *)
(* $n, no read inside the transaction), invisible to every other handler   *)
(* until the commit, so the committed store changes exactly as if they     *)
(* were applied together at the commit: they are one action.  A statement  *)
(* that returns an sqlx error (connection loss, deadlock victim) ends the  *)
(* handler through `?`; an open transaction is dropped and rolls back.     *)
(***************************************************************************)
EXTENDS Integers, Sequences, FiniteSets, TLC

\* ---------------------------------------------------------------- bounds
MaxRequests == 1

NumWorkers == 2

MaxCalls == 4

\* ------------------------------------------------------------- universes
NULL == "NULL"

Staff == {"A", "B", "C"}

Shifts == {"S1", "S2"}

Roles == {"R1"}

Workers == 1..NumWorkers

RequestIds == 1..MaxRequests

NoteTexts == {"n"}

\* request bodies: the values the optional fields are drawn from
TargetUsers == {NULL, "B"}

OfferedShifts == {NULL, "S2"}

Notes == {NULL} \cup NoteTexts

\* the notes given to Create: no handler reads the column
CreateNotes == {NULL}

Ops == {"create", "accept", "respond", "admin", "cancel"}

Results == {"ok", "NotFound", "BadRequest", "Forbidden", "Internal",
            "Unauthorized"}

\* "Shifts".role_id : every shift of the model belongs to the one role
ShiftRole(s) == "R1"

\* "UserRoles".can_edit_rota = true rows
EditRotaStaff == {"B", "C"}

\* AuthenticatedUser.is_super_admin
SuperAdmins == {"C"}

OPEN == "OPEN"

PROPOSED == "PROPOSED"

PENDING_APPROVAL == "PENDING_APPROVAL"

APPROVED == "APPROVED"

REJECTED == "REJECTED"

CANCELLED == "CANCELLED"

Statuses == {OPEN, PROPOSED, PENDING_APPROVAL, APPROVED, REJECTED, CANCELLED}

Terminal == {APPROVED, REJECTED, CANCELLED}

RequestTypes == {"SWAP", "GIVE_AWAY", "OTHER"}

\* ----------------------------------------------------------------- state
VARIABLES
    requests,     \* table "ShiftRequests": row i has id i
    owner,        \* "Shifts".user_profile_id, per shift uuid
    autoApprove,  \* "Roles".marketplace_auto_approve, per role id
    calls,        \* per worker: the handler invocation in flight, its locals
    response,     \* the response returned by the last step, if it returned one
    log,          \* per request id: the committed writes of its handlers, in order
    ncalls,       \* handler invocations so far
    clock,        \* chrono::Utc::now().timestamp()
    token,        \* the PIN token the client holds, as text
    issued        \* how that token was made: the signed id, secret and expiry

\* the PIN verification token (auth/pin_token.rs)
pinvars == <<clock, token, issued>>

vars == <<requests, owner, autoApprove, calls, response, log, ncalls, pinvars>>


\* an open sqlx::Transaction holds its writes until commit: the columns it
\* set on its "ShiftRequests" row, and the owners it set on "Shifts" rows
NoWrites == [x \in {} |-> NULL]

\* a worker that runs no handler
IdleCall ==
    [op |-> "none", pc |-> "idle", caller |-> NULL, req |-> 0,
     seen |-> NULL, requester |-> NULL, shift |-> NULL, cand |-> NULL,
     tshift |-> NULL, tuser |-> NULL, rtype |-> NULL, auto |-> FALSE,
     since |-> 0, txreq |-> NoWrites, txown |-> NoWrites,
     user_id |-> NULL, counts |-> <<>>]

NoResponse == [op |-> "none", result |-> NULL]

Response(op, res) == [op |-> op, result |-> res]

InFlight(w) == calls[w].pc # "idle"

\* a new invocation is served by the first idle worker (workers are
\* interchangeable tasks of the runtime)
Free(w) == ~InFlight(w) /\ \A v \in Workers : v < w => InFlight(v)

\* worker w takes a new invocation
Invoke(w) == Free(w) /\ ncalls < MaxCalls /\ ncalls' = ncalls + 1

Exists(id) == id \in 1..Len(requests)

\* number of committed writes on request id: what a read of the row reflects
Version(id) == Len(log[id])

\* extractors/permissions.rs has_permission_by_name(.., "can_edit_rota")
has_permission_by_name(profile_id) ==
    profile_id \in SuperAdmins \/ profile_id \in EditRotaStaff

\* the handler of worker w goes on to its next statement
Proceed(w, c) ==
    /\ calls' = [calls EXCEPT ![w] = c]
    /\ response' = NoResponse

\* the handler of worker w returns
Return(w, op, res) ==
    /\ calls' = [calls EXCEPT ![w] = IdleCall]
    /\ response' = Response(op, res)

\* the committed write of a handler on request id: the status it had read
\* (from) at version `since`, the status it stored (to), and whether its
\* transaction ran perform_shift_swap
Logged(id, op, caller, from, to, since, swap) ==
    [log EXCEPT ![id] = Append(@, [op |-> op, caller |-> caller, from |-> from,
                                   to |-> to, since |-> since, swap |-> swap])]

\* NOW() as stored in resolved_at: the column is null or holds a timestamp
NOW == "NOW"

\* the row `id` of "ShiftRequests" with the columns of `set` overwritten
Updated(id, set) ==
    [requests EXCEPT ![id] =
        [col \in DOMAIN @ |-> IF col \in DOMAIN set THEN set[col] ELSE @[col]]]


\* row locks: another worker's open transaction has written the row
RowLocked(id, w) ==
    \E v \in Workers \ {w} : calls[v].req = id /\ DOMAIN calls[v].txreq # {}

ShiftLocked(s, w) ==
    \E v \in Workers \ {w} : s \in DOMAIN calls[v].txown


\* no PIN token has been handed out
NotIssued == [user_profile_id |-> 0, secret |-> <<>>, expiry |-> 0,
              made |-> "none", checked |-> <<>>]

Init ==
    /\ requests = <<>>
    /\ owner = [s \in Shifts |-> IF s = "S1" THEN "A" ELSE "B"]
    /\ autoApprove \in [Roles -> BOOLEAN]
    /\ calls = [w \in Workers |-> IdleCall]
    /\ response = NoResponse
    /\ log = [r \in RequestIds |-> <<>>]
    /\ ncalls = 0
    /\ clock = 0 /\ token = <<>> /\ issued = NotIssued

\* ------------------------------------------------- create_shift_request
\* invocation, SELECT user_profile_id FROM "Shifts", ownership and type checks
create_check(w, caller, shift_id, request_type, target_user_id) ==
    /\ Invoke(w)
    /\ Len(requests) + Cardinality({v \in Workers : calls[v].op = "create"}) < MaxRequests
    /\ LET c == [IdleCall EXCEPT !.op = "create", !.caller = caller,
                                 !.shift = shift_id, !.rtype = request_type,
                                 !.tuser = target_user_id]
       IN  IF owner[shift_id] # caller
           THEN Return(w, "create", "Forbidden")
           ELSE IF request_type = "SWAP" /\ target_user_id # NULL
           THEN Proceed(w, [c EXCEPT !.pc = "insert", !.seen = PROPOSED])
           ELSE IF request_type = "GIVE_AWAY"
           THEN Proceed(w, [c EXCEPT !.pc = "insert", !.seen = OPEN])
           ELSE Return(w, "create", "BadRequest")
    /\ UNCHANGED <<requests, owner, autoApprove, log, pinvars>>



create_insert_noTargetShift(w, target_shift_id, notes) ==
    /\ calls[w].op = "create" /\ calls[w].pc = "insert"
    /\ LET c == calls[w]
           row == [shift_id |-> c.shift, requester_id |-> c.caller,
                   type |-> c.rtype, status |-> c.seen,
                   target_user_id |-> c.tuser,
                   target_shift_id |-> NULL,
                   candidate_id |-> NULL, resolved_by |-> NULL,
                   resolved_at |-> NULL, notes |-> notes]
       IN  requests' = Append(requests, row)
    /\ Return(w, "create", "ok")
    /\ UNCHANGED <<owner, autoApprove, log, ncalls, pinvars>>

create_insert_alwaysOpen(w, target_shift_id, notes) ==
    /\ calls[w].op = "create" /\ calls[w].pc = "insert"
    /\ LET c == calls[w]
           row == [shift_id |-> c.shift, requester_id |-> c.caller,
                   type |-> c.rtype, status |-> OPEN,
                   target_user_id |-> c.tuser,
                   target_shift_id |-> target_shift_id,
                   candidate_id |-> NULL, resolved_by |-> NULL,
                   resolved_at |-> NULL, notes |-> notes]
       IN  requests' = Append(requests, row)
    /\ Return(w, "create", "ok")
    /\ UNCHANGED <<owner, autoApprove, log, ncalls, pinvars>>

\* INSERT INTO "ShiftRequests" ... RETURNING id
create_insert(w, target_shift_id, notes) ==
    /\ calls[w].op = "create" /\ calls[w].pc = "insert"
    /\ LET c == calls[w]
           row == [shift_id |-> c.shift, requester_id |-> c.caller,
                   type |-> c.rtype, status |-> c.seen,
                   target_user_id |-> c.tuser,
                   target_shift_id |-> target_shift_id,
                   candidate_id |-> NULL, resolved_by |-> NULL,
                   resolved_at |-> NULL, notes |-> notes]
       IN  requests' = Append(requests, row)
    /\ Return(w, "create", "ok")
    /\ UNCHANGED <<owner, autoApprove, log, ncalls, pinvars>>

\* --------------------------------------------------- perform_shift_swap


perform_shift_swap_oneWay(own, shift_id, new_owner_id, target_shift_id, original_owner_id) ==
    [own EXCEPT ![shift_id] = new_owner_id]

\* the two UPDATE "Shifts" SET user_profile_id statements, on the table `own`
perform_shift_swap(own, shift_id, new_owner_id, target_shift_id, original_owner_id) ==
    LET first == [own EXCEPT ![shift_id] = new_owner_id]
    IN  IF target_shift_id # NULL
        THEN [first EXCEPT ![target_shift_id] = original_owner_id]
        ELSE first

\* ------------------------------------------------- accept_shift_request
\* invocation, SELECT status, requester_id, shift_id, the two validations
accept_fetch(w, caller, id) ==
    /\ Invoke(w)
    /\ IF ~Exists(id)
       THEN Return(w, "accept", "NotFound")
       ELSE IF requests[id].status # OPEN
       THEN Return(w, "accept", "BadRequest")
       ELSE IF requests[id].requester_id = caller
       THEN Return(w, "accept", "BadRequest")
       ELSE Proceed(w, [IdleCall EXCEPT !.op = "accept", !.pc = "policy",
                            !.caller = caller, !.req = id,
                            !.seen = requests[id].status,
                            !.requester = requests[id].requester_id,
                            !.shift = requests[id].shift_id,
                            !.since = Version(id)])
    /\ UNCHANGED <<requests, owner, autoApprove, log, pinvars>>

\* SELECT r.marketplace_auto_approve FROM "Shifts" s JOIN "Roles" r
accept_policy(w) ==
    /\ calls[w].op = "accept" /\ calls[w].pc = "policy"
    /\ Proceed(w, [calls[w] EXCEPT !.pc = "write",
                                   !.auto = autoApprove[ShiftRole(calls[w].shift)]])
    /\ UNCHANGED <<requests, owner, autoApprove, log, ncalls, pinvars>>


accept_write_alwaysSwaps(w, target_shift_id) ==
    /\ calls[w].op = "accept" /\ calls[w].pc = "write"
    /\ LET c == calls[w]
           new_status == IF c.auto THEN APPROVED ELSE PENDING_APPROVAL
           claimed == [candidate_id |-> c.caller,
                       target_shift_id |-> target_shift_id,
                       status |-> new_status]
           resolved == [resolved_by |-> c.caller, resolved_at |-> NOW]
       IN  /\ requests' = Updated(c.req, IF c.auto THEN claimed @@ resolved
                                                    ELSE claimed)
           /\ owner' = perform_shift_swap(owner, c.shift, c.caller,
                                          target_shift_id, c.requester)
           /\ log' = Logged(c.req, "accept", c.caller, c.seen, new_status, c.since, c.auto)
    /\ Return(w, "accept", "ok")
    /\ UNCHANGED <<autoApprove, ncalls, pinvars>>

\* accept_write whose UPDATE also sets target_user_id to the caller
accept_write_retargets(w, target_shift_id) ==
    /\ calls[w].op = "accept" /\ calls[w].pc = "write"
    /\ LET c == calls[w]
           new_status == IF c.auto THEN APPROVED ELSE PENDING_APPROVAL
           claimed == [candidate_id |-> c.caller, target_user_id |-> c.caller,
                       target_shift_id |-> target_shift_id,
                       status |-> new_status]
           resolved == [resolved_by |-> c.caller, resolved_at |-> NOW]
       IN  /\ requests' = Updated(c.req, IF c.auto THEN claimed @@ resolved
                                                    ELSE claimed)
           /\ owner' = IF c.auto
                       THEN perform_shift_swap(owner, c.shift, c.caller,
                                               target_shift_id, c.requester)
                       ELSE owner
           /\ log' = Logged(c.req, "accept", c.caller, c.seen, new_status, c.since, c.auto)
    /\ Return(w, "accept", "ok")
    /\ UNCHANGED <<autoApprove, ncalls, pinvars>>

\* begin; UPDATE "ShiftRequests"; [perform_shift_swap; UPDATE resolved]; commit
accept_write(w, target_shift_id) ==
    /\ calls[w].op = "accept" /\ calls[w].pc = "write"
    /\ LET c == calls[w]
           new_status == IF c.auto THEN APPROVED ELSE PENDING_APPROVAL
           claimed == [candidate_id |-> c.caller,
                       target_shift_id |-> target_shift_id,
                       status |-> new_status]
           resolved == [resolved_by |-> c.caller, resolved_at |-> NOW]
       IN  /\ requests' = Updated(c.req, IF c.auto THEN claimed @@ resolved
                                                    ELSE claimed)
           /\ owner' = IF c.auto
                       THEN perform_shift_swap(owner, c.shift, c.caller,
                                               target_shift_id, c.requester)
                       ELSE owner
           /\ log' = Logged(c.req, "accept", c.caller, c.seen, new_status, c.since, c.auto)
    /\ Return(w, "accept", "ok")
    /\ UNCHANGED <<autoApprove, ncalls, pinvars>>

\* -------------------------------------------------- respond_to_proposal

respond_fetch_anyCaller(w, caller, id, accept) ==
    /\ Invoke(w)
    /\ IF ~Exists(id)
       THEN Return(w, "respond", "NotFound")
       ELSE IF requests[id].status # PROPOSED
       THEN Return(w, "respond", "BadRequest")
       ELSE Proceed(w, [IdleCall EXCEPT !.op = "respond",
                            !.pc = IF accept THEN "policy" ELSE "reject",
                            !.caller = caller, !.req = id,
                            !.seen = requests[id].status,
                            !.tuser = requests[id].target_user_id,
                            !.requester = requests[id].requester_id,
                            !.shift = requests[id].shift_id,
                            !.tshift = requests[id].target_shift_id,
                            !.since = Version(id)])
    /\ UNCHANGED <<requests, owner, autoApprove, log, pinvars>>

\* invocation, SELECT status, target_user_id, ..., the two validations
respond_fetch(w, caller, id, accept) ==
    /\ Invoke(w)
    /\ IF ~Exists(id)
       THEN Return(w, "respond", "NotFound")
       ELSE IF requests[id].status # PROPOSED
       THEN Return(w, "respond", "BadRequest")
       ELSE IF requests[id].target_user_id # caller
       THEN Return(w, "respond", "Forbidden")
       ELSE Proceed(w, [IdleCall EXCEPT !.op = "respond",
                            !.pc = IF accept THEN "policy" ELSE "reject",
                            !.caller = caller, !.req = id,
                            !.seen = requests[id].status,
                            !.tuser = requests[id].target_user_id,
                            !.requester = requests[id].requester_id,
                            !.shift = requests[id].shift_id,
                            !.tshift = requests[id].target_shift_id,
                            !.since = Version(id)])
    /\ UNCHANGED <<requests, owner, autoApprove, log, pinvars>>

\* input.accept: SELECT r.marketplace_auto_approve
respond_policy(w) ==
    /\ calls[w].op = "respond" /\ calls[w].pc = "policy"
    /\ Proceed(w, [calls[w] EXCEPT !.pc = "write",
                                   !.auto = autoApprove[ShiftRole(calls[w].shift)]])
    /\ UNCHANGED <<requests, owner, autoApprove, log, ncalls, pinvars>>

\* respond_write storing the PEER_ACCEPTED value while approval is awaited
respond_write_peerAccepted(w) ==
    /\ calls[w].op = "respond" /\ calls[w].pc = "write"
    /\ LET c == calls[w]
           new_status == IF c.auto THEN APPROVED ELSE "PEER_ACCEPTED"
           claimed == [candidate_id |-> c.caller, status |-> new_status]
           resolved == [resolved_by |-> c.caller, resolved_at |-> NOW]
       IN  /\ requests' = Updated(c.req, IF c.auto THEN claimed @@ resolved
                                                    ELSE claimed)
           /\ owner' = IF c.auto
                       THEN perform_shift_swap(owner, c.shift, c.caller,
                                               c.tshift, c.requester)
                       ELSE owner
           /\ log' = Logged(c.req, "respond", c.caller, c.seen, new_status, c.since, c.auto)
    /\ Return(w, "respond", "ok")
    /\ UNCHANGED <<autoApprove, ncalls, pinvars>>

\* respond_write whose UPDATE does not set candidate_id
respond_write_noCandidate(w) ==
    /\ calls[w].op = "respond" /\ calls[w].pc = "write"
    /\ LET c == calls[w]
           new_status == IF c.auto THEN APPROVED ELSE PENDING_APPROVAL
           claimed == [status |-> new_status]
           resolved == [resolved_by |-> c.caller, resolved_at |-> NOW]
       IN  /\ requests' = Updated(c.req, IF c.auto THEN claimed @@ resolved
                                                    ELSE claimed)
           /\ owner' = IF c.auto
                       THEN perform_shift_swap(owner, c.shift, c.caller,
                                               c.tshift, c.requester)
                       ELSE owner
           /\ log' = Logged(c.req, "respond", c.caller, c.seen, new_status, c.since, c.auto)
    /\ Return(w, "respond", "ok")
    /\ UNCHANGED <<autoApprove, ncalls, pinvars>>

\* input.accept: begin; UPDATE "ShiftRequests"; [swap; UPDATE resolved]; commit
respond_write(w) ==
    /\ calls[w].op = "respond" /\ calls[w].pc = "write"
    /\ LET c == calls[w]
           new_status == IF c.auto THEN APPROVED ELSE PENDING_APPROVAL
           claimed == [candidate_id |-> c.caller, status |-> new_status]
           resolved == [resolved_by |-> c.caller, resolved_at |-> NOW]
       IN  /\ requests' = Updated(c.req, IF c.auto THEN claimed @@ resolved
                                                    ELSE claimed)
           /\ owner' = IF c.auto
                       THEN perform_shift_swap(owner, c.shift, c.caller,
                                               c.tshift, c.requester)
                       ELSE owner
           /\ log' = Logged(c.req, "respond", c.caller, c.seen, new_status, c.since, c.auto)
    /\ Return(w, "respond", "ok")
    /\ UNCHANGED <<autoApprove, ncalls, pinvars>>

\* !input.accept: UPDATE "ShiftRequests" SET status = 'REJECTED', ...
respond_reject(w) ==
    /\ calls[w].op = "respond" /\ calls[w].pc = "reject"
    /\ ~RowLocked(calls[w].req, w)
    /\ LET c == calls[w]
       IN  /\ requests' = Updated(c.req, [status |-> REJECTED,
                                          resolved_by |-> c.caller,
                                          resolved_at |-> NOW])
           /\ log' = Logged(c.req, "respond", c.caller, c.seen, REJECTED, c.since, FALSE)
    /\ Return(w, "respond", "ok")
    /\ UNCHANGED <<owner, autoApprove, ncalls, pinvars>>

\* ------------------------------------------------------- admin_decision


admin_fetch_fetchFirst(w, caller, id) ==
    /\ Invoke(w)
    /\ IF ~Exists(id)
       THEN Return(w, "admin", "NotFound")
       ELSE IF ~has_permission_by_name(caller)
       THEN Return(w, "admin", "Forbidden")
       ELSE IF requests[id].status # PENDING_APPROVAL
       THEN Return(w, "admin", "BadRequest")
       ELSE IF requests[id].candidate_id = NULL
       THEN Return(w, "admin", "BadRequest")
       ELSE Proceed(w, [IdleCall EXCEPT !.op = "admin", !.pc = "decide",
                            !.caller = caller, !.req = id,
                            !.seen = requests[id].status,
                            !.shift = requests[id].shift_id,
                            !.cand = requests[id].candidate_id,
                            !.tshift = requests[id].target_shift_id,
                            !.requester = requests[id].requester_id,
                            !.since = Version(id)])
    /\ UNCHANGED <<requests, owner, autoApprove, log, pinvars>>

\* admin_fetch without the PENDING_APPROVAL validation
admin_fetch_anyStatus(w, caller, id) ==
    /\ Invoke(w)
    /\ IF ~has_permission_by_name(caller)
       THEN Return(w, "admin", "Forbidden")
       ELSE IF ~Exists(id)
       THEN Return(w, "admin", "NotFound")
       ELSE IF requests[id].candidate_id = NULL
       THEN Return(w, "admin", "BadRequest")
       ELSE Proceed(w, [IdleCall EXCEPT !.op = "admin", !.pc = "decide",
                            !.caller = caller, !.req = id,
                            !.seen = requests[id].status,
                            !.shift = requests[id].shift_id,
                            !.cand = requests[id].candidate_id,
                            !.tshift = requests[id].target_shift_id,
                            !.requester = requests[id].requester_id,
                            !.since = Version(id)])
    /\ UNCHANGED <<requests, owner, autoApprove, log, pinvars>>

\* invocation, permission check, SELECT status, ..., the two validations
admin_fetch(w, caller, id) ==
    /\ Invoke(w)
    /\ IF ~has_permission_by_name(caller)
       THEN Return(w, "admin", "Forbidden")
       ELSE IF ~Exists(id)
       THEN Return(w, "admin", "NotFound")
       ELSE IF requests[id].status # PENDING_APPROVAL
       THEN Return(w, "admin", "BadRequest")
       ELSE IF requests[id].candidate_id = NULL
       THEN Return(w, "admin", "BadRequest")
       ELSE Proceed(w, [IdleCall EXCEPT !.op = "admin", !.pc = "decide",
                            !.caller = caller, !.req = id,
                            !.seen = requests[id].status,
                            !.shift = requests[id].shift_id,
                            !.cand = requests[id].candidate_id,
                            !.tshift = requests[id].target_shift_id,
                            !.requester = requests[id].requester_id,
                            !.since = Version(id)])
    /\ UNCHANGED <<requests, owner, autoApprove, log, pinvars>>

\* admin_approve whose UPDATE sets notes = COALESCE($2, notes)
admin_approve_keepsNotes(w, notes) ==
    /\ calls[w].op = "admin" /\ calls[w].pc = "decide"
    /\ LET c == calls[w]
       IN  /\ owner' = perform_shift_swap(owner, c.shift, c.cand, c.tshift,
                                          c.requester)
           /\ requests' = Updated(c.req, [status |-> APPROVED,
                                          resolved_by |-> c.caller,
                                          resolved_at |-> NOW,
                                          notes |-> IF notes = NULL
                                                    THEN requests[c.req].notes
                                                    ELSE notes])
           /\ log' = Logged(c.req, "admin", c.caller, c.seen, APPROVED, c.since, TRUE)
    /\ Return(w, "admin", "ok")
    /\ UNCHANGED <<autoApprove, ncalls, pinvars>>

\* input.approve: begin; perform_shift_swap; UPDATE "ShiftRequests"; commit
admin_approve(w, notes) ==
    /\ calls[w].op = "admin" /\ calls[w].pc = "decide"
    /\ LET c == calls[w]
       IN  /\ owner' = perform_shift_swap(owner, c.shift, c.cand, c.tshift,
                                          c.requester)
           /\ requests' = Updated(c.req, [status |-> APPROVED,
                                          resolved_by |-> c.caller,
                                          resolved_at |-> NOW,
                                          notes |-> notes])
           /\ log' = Logged(c.req, "admin", c.caller, c.seen, APPROVED, c.since, TRUE)
    /\ Return(w, "admin", "ok")
    /\ UNCHANGED <<autoApprove, ncalls, pinvars>>


admin_reject_dropsCandidate(w, notes) ==
    /\ calls[w].op = "admin" /\ calls[w].pc = "decide"
    /\ ~RowLocked(calls[w].req, w)
    /\ LET c == calls[w]
       IN  /\ requests' = Updated(c.req, [status |-> REJECTED,
                                          candidate_id |-> NULL,
                                          resolved_by |-> c.caller,
                                          resolved_at |-> NOW,
                                          notes |-> notes])
           /\ log' = Logged(c.req, "admin", c.caller, c.seen, REJECTED, c.since, FALSE)
    /\ Return(w, "admin", "ok")
    /\ UNCHANGED <<owner, autoApprove, ncalls, pinvars>>

\* !input.approve: UPDATE "ShiftRequests" SET status = 'REJECTED', ...
admin_reject(w, notes) ==
    /\ calls[w].op = "admin" /\ calls[w].pc = "decide"
    /\ ~RowLocked(calls[w].req, w)
    /\ LET c == calls[w]
       IN  /\ requests' = Updated(c.req, [status |-> REJECTED,
                                          resolved_by |-> c.caller,
                                          resolved_at |-> NOW,
                                          notes |-> notes])
           /\ log' = Logged(c.req, "admin", c.caller, c.seen, REJECTED, c.since, FALSE)
    /\ Return(w, "admin", "ok")
    /\ UNCHANGED <<owner, autoApprove, ncalls, pinvars>>

\* ------------------------------------------------- cancel_shift_request

\* cancel_fetch whose resolved check forgets the CANCELLED status
cancel_fetch_skipCancelled(w, caller, id) ==
    /\ Invoke(w)
    /\ IF ~Exists(id)
       THEN Return(w, "cancel", "NotFound")
       ELSE IF requests[id].requester_id # caller
       THEN Return(w, "cancel", "Forbidden")
       ELSE IF requests[id].status \in {APPROVED, REJECTED}
       THEN Return(w, "cancel", "BadRequest")
       ELSE Proceed(w, [IdleCall EXCEPT !.op = "cancel", !.pc = "write",
                            !.caller = caller, !.req = id,
                            !.seen = requests[id].status,
                            !.requester = requests[id].requester_id,
                            !.since = Version(id)])
    /\ UNCHANGED <<requests, owner, autoApprove, log, pinvars>>

\* invocation, SELECT status, requester_id, the two validations
cancel_fetch(w, caller, id) ==
    /\ Invoke(w)
    /\ IF ~Exists(id)
       THEN Return(w, "cancel", "NotFound")
       ELSE IF requests[id].requester_id # caller
       THEN Return(w, "cancel", "Forbidden")
       ELSE IF requests[id].status \in {APPROVED, REJECTED, CANCELLED}
       THEN Return(w, "cancel", "BadRequest")
       ELSE Proceed(w, [IdleCall EXCEPT !.op = "cancel", !.pc = "write",
                            !.caller = caller, !.req = id,
                            !.seen = requests[id].status,
                            !.requester = requests[id].requester_id,
                            !.since = Version(id)])
    /\ UNCHANGED <<requests, owner, autoApprove, log, pinvars>>



\* cancel_write as a DELETE FROM "ShiftRequests" WHERE id = $1
cancel_write_deletes(w) ==
    /\ calls[w].op = "cancel" /\ calls[w].pc = "write"
    /\ ~RowLocked(calls[w].req, w)
    /\ LET c == calls[w]
       IN  /\ requests' = SubSeq(requests, 1, c.req - 1)
                          \o SubSeq(requests, c.req + 1, Len(requests))
           /\ log' = Logged(c.req, "cancel", c.caller, c.seen, CANCELLED, c.since, FALSE)
    /\ Return(w, "cancel", "ok")
    /\ UNCHANGED <<owner, autoApprove, ncalls, pinvars>>

cancel_write_clearsCandidate(w) ==
    /\ calls[w].op = "cancel" /\ calls[w].pc = "write"
    /\ ~RowLocked(calls[w].req, w)
    /\ LET c == calls[w]
       IN  /\ requests' = Updated(c.req, [status |-> CANCELLED,
                                          candidate_id |-> NULL,
                                          resolved_by |-> c.caller,
                                          resolved_at |-> NOW])
           /\ log' = Logged(c.req, "cancel", c.caller, c.seen, CANCELLED, c.since, FALSE)
    /\ Return(w, "cancel", "ok")
    /\ UNCHANGED <<owner, autoApprove, ncalls, pinvars>>

\* UPDATE "ShiftRequests" SET status = 'CANCELLED', ...
cancel_write(w) ==
    /\ calls[w].op = "cancel" /\ calls[w].pc = "write"
    /\ ~RowLocked(calls[w].req, w)
    /\ LET c == calls[w]
       IN  /\ requests' = Updated(c.req, [status |-> CANCELLED,
                                          resolved_by |-> c.caller,
                                          resolved_at |-> NOW])
           /\ log' = Logged(c.req, "cancel", c.caller, c.seen, CANCELLED, c.since, FALSE)
    /\ Return(w, "cancel", "ok")
    /\ UNCHANGED <<owner, autoApprove, ncalls, pinvars>>

\* ------------------------------------------------------------ sqlx errors
\* the next awaited statement of the handler fails: `?` returns the error,
\* an open transaction is dropped without commit
db_error(w) ==
    /\ InFlight(w)
    /\ Return(w, calls[w].op, "Internal")
    /\ UNCHANGED <<requests, owner, autoApprove, log, ncalls, pinvars>>

\* -------------------------------------------------------- specification

\* ---------------------------------------- transactions, statement by statement
\* the new owner perform_shift_swap is called with
SwapNewOwner(c) == IF c.op = "admin" THEN c.cand ELSE c.caller

\* the handler of worker w issues a statement inside its transaction
InTx(w, c) ==
    /\ Proceed(w, c)
    /\ UNCHANGED <<requests, owner, autoApprove, log, ncalls, pinvars>>

\* accept: begin; UPDATE "ShiftRequests" SET candidate_id, target_shift_id, status
accept_tx_update(w, target_shift_id) ==
    /\ calls[w].op = "accept" /\ calls[w].pc = "write"
    /\ ~RowLocked(calls[w].req, w)
    /\ LET c == calls[w]
           new_status == IF c.auto THEN APPROVED ELSE PENDING_APPROVAL
       IN  InTx(w, [c EXCEPT !.pc = IF c.auto THEN "swap" ELSE "commit",
                             !.tshift = target_shift_id,
                             !.txreq = [candidate_id |-> c.caller,
                                        target_shift_id |-> target_shift_id,
                                        status |-> new_status]])

\* respond: begin; UPDATE "ShiftRequests" SET candidate_id, status
respond_tx_update(w) ==
    /\ calls[w].op = "respond" /\ calls[w].pc = "write"
    /\ ~RowLocked(calls[w].req, w)
    /\ LET c == calls[w]
           new_status == IF c.auto THEN APPROVED ELSE PENDING_APPROVAL
       IN  InTx(w, [c EXCEPT !.pc = IF c.auto THEN "swap" ELSE "commit",
                             !.txreq = [candidate_id |-> c.caller,
                                        status |-> new_status]])


tx_swap_first_onPool(w) ==
    /\ \/ calls[w].op \in {"accept", "respond"} /\ calls[w].pc = "swap"
       \/ calls[w].op = "admin" /\ calls[w].pc = "decide"
    /\ ~ShiftLocked(calls[w].shift, w)
    /\ LET c == calls[w]
       IN  /\ Proceed(w, [c EXCEPT !.pc = IF c.tshift # NULL THEN "swap2"
                                          ELSE IF c.op = "admin" THEN "update"
                                          ELSE "resolve"])
           /\ owner' = [owner EXCEPT ![c.shift] = SwapNewOwner(c)]
           /\ UNCHANGED <<requests, autoApprove, log, ncalls, pinvars>>

\* perform_shift_swap, first UPDATE "Shifts" (admin: begin, input.approve)
tx_swap_first(w) ==
    /\ \/ calls[w].op \in {"accept", "respond"} /\ calls[w].pc = "swap"
       \/ calls[w].op = "admin" /\ calls[w].pc = "decide"
    /\ ~ShiftLocked(calls[w].shift, w)
    /\ LET c == calls[w]
       IN  InTx(w, [c EXCEPT !.pc = IF c.tshift # NULL THEN "swap2"
                                    ELSE IF c.op = "admin" THEN "update"
                                    ELSE "resolve",
                             !.txown = [s \in {c.shift} |-> SwapNewOwner(c)]])

\* perform_shift_swap, second UPDATE "Shifts" when target_shift_id is Some
tx_swap_second(w) ==
    /\ calls[w].pc = "swap2"
    /\ ~ShiftLocked(calls[w].tshift, w)
    /\ LET c == calls[w]
       IN  InTx(w, [c EXCEPT !.pc = IF c.op = "admin" THEN "update" ELSE "resolve",
                             !.txown = [s \in {c.tshift} |-> c.requester] @@ @])

\* accept, respond: UPDATE "ShiftRequests" SET resolved_by, resolved_at
tx_resolve(w) ==
    /\ calls[w].pc = "resolve"
    /\ LET c == calls[w]
       IN  InTx(w, [c EXCEPT !.pc = "commit",
                             !.txreq = [resolved_by |-> c.caller,
                                        resolved_at |-> NOW] @@ @])

\* admin: UPDATE "ShiftRequests" SET status = 'APPROVED', resolved_by, ..., notes
admin_tx_update(w, notes) ==
    /\ calls[w].op = "admin" /\ calls[w].pc = "update"
    /\ ~RowLocked(calls[w].req, w)
    /\ LET c == calls[w]
       IN  InTx(w, [c EXCEPT !.pc = "commit",
                             !.txreq = [status |-> APPROVED,
                                        resolved_by |-> c.caller,
                                        resolved_at |-> NOW,
                                        notes |-> notes]])

\* tx.commit(): the writes of the transaction become the committed store
tx_commit(w) ==
    /\ calls[w].pc = "commit"
    /\ LET c == calls[w]
       IN  /\ requests' = Updated(c.req, c.txreq)
           /\ owner' = [s \in Shifts |-> IF s \in DOMAIN c.txown
                                         THEN c.txown[s] ELSE owner[s]]
           /\ log' = Logged(c.req, c.op, c.caller, c.seen, c.txreq.status,
                            c.since, DOMAIN c.txown # {})
           /\ Return(w, c.op, "ok")
    /\ UNCHANGED <<autoApprove, ncalls, pinvars>>

NextTx ==
    \/ \E w \in Workers, caller \in Staff, s \in Shifts, t \in RequestTypes,
          u \in TargetUsers : create_check(w, caller, s, t, u)
    \/ \E w \in Workers, ts \in OfferedShifts, n \in CreateNotes :
          create_insert(w, ts, n)
    \/ \E w \in Workers, caller \in Staff, id \in RequestIds :
          accept_fetch(w, caller, id)
    \/ \E w \in Workers : accept_policy(w)
    \/ \E w \in Workers, ts \in OfferedShifts : accept_tx_update(w, ts)
    \/ \E w \in Workers, caller \in Staff, id \in RequestIds, a \in BOOLEAN :
          respond_fetch(w, caller, id, a)
    \/ \E w \in Workers : respond_policy(w)
    \/ \E w \in Workers : respond_tx_update(w)
    \/ \E w \in Workers : respond_reject(w)
    \/ \E w \in Workers, caller \in Staff, id \in RequestIds :
          admin_fetch(w, caller, id)
    \/ \E w \in Workers : tx_swap_first(w)
    \/ \E w \in Workers : tx_swap_second(w)
    \/ \E w \in Workers : tx_resolve(w)
    \/ \E w \in Workers, n \in NoteTexts : admin_tx_update(w, n)
    \/ \E w \in Workers : tx_commit(w)
    \/ \E w \in Workers, n \in NoteTexts : admin_reject(w, n)
    \/ \E w \in Workers, caller \in Staff, id \in RequestIds :
          cancel_fetch(w, caller, id)
    \/ \E w \in Workers : cancel_write(w)
    \/ \E w \in Workers : db_error(w)

\* the handlers with every statement of a transaction as its own step
SpecTx == Init /\ [][NextTx]_vars

Next ==
    \/ \E w \in Workers, caller \in Staff, s \in Shifts, t \in RequestTypes,
          u \in TargetUsers : create_check(w, caller, s, t, u)
    \/ \E w \in Workers, ts \in OfferedShifts, n \in CreateNotes :
          create_insert(w, ts, n)
    \/ \E w \in Workers, caller \in Staff, id \in RequestIds :
          accept_fetch(w, caller, id)
    \/ \E w \in Workers : accept_policy(w)
    \/ \E w \in Workers, ts \in OfferedShifts : accept_write(w, ts)
    \/ \E w \in Workers, caller \in Staff, id \in RequestIds, a \in BOOLEAN :
          respond_fetch(w, caller, id, a)
    \/ \E w \in Workers : respond_policy(w)
    \/ \E w \in Workers : respond_write(w)
    \/ \E w \in Workers : respond_reject(w)
    \/ \E w \in Workers, caller \in Staff, id \in RequestIds :
          admin_fetch(w, caller, id)
    \/ \E w \in Workers, n \in Notes : admin_approve(w, n)
    \/ \E w \in Workers, n \in Notes : admin_reject(w, n)
    \/ \E w \in Workers, caller \in Staff, id \in RequestIds :
          cancel_fetch(w, caller, id)
    \/ \E w \in Workers : cancel_write(w)
    \/ \E w \in Workers : db_error(w)

Spec == Init /\ [][Next]_vars

TypeOK ==
    /\ Len(requests) <= MaxRequests
    /\ owner \in [Shifts -> Staff \cup {NULL}]
    /\ autoApprove \in [Roles -> BOOLEAN]
    /\ \A id \in 1..Len(requests) : requests[id].status \in Statuses

\* ------------------------------------------------------------ properties
Stored == 1..Len(requests)

\* the transition table of the workflow (rows From -> To)
TransitionTable ==
    {<<OPEN, APPROVED>>, <<OPEN, PENDING_APPROVAL>>,
     <<PROPOSED, APPROVED>>, <<PROPOSED, PENDING_APPROVAL>>,
     <<PROPOSED, REJECTED>>,
     <<PENDING_APPROVAL, APPROVED>>, <<PENDING_APPROVAL, REJECTED>>,
     <<OPEN, CANCELLED>>, <<PROPOSED, CANCELLED>>,
     <<PENDING_APPROVAL, CANCELLED>>}

\* committed writes j and k on request id were made by handlers that ran
\* concurrently: the handler of k had read the row before j was committed
Raced(id, j, k) ==
    /\ j \in 1..Len(log[id]) /\ k \in 1..Len(log[id])
    /\ j < k
    /\ log[id][k].since < j

\* committed runs of perform_shift_swap on behalf of request id
Settlements(id) == {k \in 1..Len(log[id]) : log[id][k].swap}

\* C1: every change of a request's committed status is a row of the
\* transition table; no other status change occurs
C1_StatusFollowsTable ==
    [][\A id \in Stored :
          requests'[id].status # requests[id].status
              => <<requests[id].status, requests'[id].status>> \in TransitionTable]_vars

\* C2: of two concurrent Accept calls on the same Open request by different
\* candidates exactly one succeeds; the other commits no write
C2_OneAcceptWins ==
    \A id \in RequestIds : \A j, k \in 1..Len(log[id]) :
        ~ ( /\ Raced(id, j, k)
            /\ log[id][j].op = "accept" /\ log[id][k].op = "accept"
            /\ log[id][j].from = OPEN /\ log[id][k].from = OPEN
            /\ log[id][j].caller # log[id][k].caller )

\* C3: settlement is committed at most once per request
C3_SettledAtMostOnce ==
    \A id \in RequestIds : Cardinality(Settlements(id)) <= 1

\* C4: a settlement has been committed for a request iff its status is
\* Approved
C4_SettledIffApproved ==
    \A id \in Stored :
        (Settlements(id) # {}) <=> (requests[id].status = APPROVED)

\* C5: whenever a write makes a request Approved, in the committed state the
\* owner of shiftId is the stored candidateId and, if targetShiftId is set,
\* its owner is requesterId
C5_ApprovedMeansSwapped ==
    [][\A id \in Stored :
          (Len(log'[id]) > Len(log[id]) /\ requests'[id].status = APPROVED)
              => /\ owner'[requests'[id].shift_id] = requests'[id].candidate_id
                 /\ requests'[id].target_shift_id # NULL
                       => owner'[requests'[id].target_shift_id]
                              = requests'[id].requester_id]_vars

\* C6: once candidateId is set it never changes
C6_CandidateImmutable ==
    [][\A id \in Stored :
          requests[id].candidate_id # NULL
              => requests'[id].candidate_id = requests[id].candidate_id]_vars

\* C7: candidateId, when set, differs from requesterId, and every call that
\* would set candidateId to the requester (Accept by the requester,
\* Respond(accept) by a target who is the requester) is rejected without
\* changing the request
C7_NoSelfDeal ==
    [][/\ \A id \in 1..Len(requests') :
             requests'[id].candidate_id # NULL
                 => requests'[id].candidate_id # requests'[id].requester_id
       /\ \A w \in Workers, id \in Stored :
             \/ accept_fetch(w, requests[id].requester_id, id)
             \/ /\ requests[id].target_user_id = requests[id].requester_id
                /\ respond_fetch(w, requests[id].requester_id, id, TRUE)
             => /\ response'.result \in Results \ {"ok"}
                /\ requests' = requests]_vars

\* C8: once a request is Approved, Rejected or Cancelled none of its fields
\* is changed by a later-committing call
C8_TerminalImmutable ==
    [][\A id \in Stored :
          requests[id].status \in Terminal => requests'[id] = requests[id]]_vars

\* C9: of two concurrent AdminDecision calls on the same PendingApproval
\* request exactly one takes effect, ownership is reassigned at most once
\* and the final status is the winner's decision
C9_OneDecisionWins ==
    \A id \in RequestIds : \A j, k \in 1..Len(log[id]) :
        ~ ( /\ Raced(id, j, k)
            /\ log[id][j].op = "admin" /\ log[id][k].op = "admin"
            /\ log[id][j].from = PENDING_APPROVAL
            /\ log[id][k].from = PENDING_APPROVAL )

\* C10: a Cancel that runs concurrently with an Accept, Respond or
\* AdminDecision on the same request is totally ordered with it: exactly one
\* of the two succeeds, the other commits no write
C10_CancelOrdered ==
    \A id \in RequestIds : \A j, k \in 1..Len(log[id]) :
        ~ ( /\ Raced(id, j, k)
            /\ \/ log[id][j].op = "cancel"
                  /\ log[id][k].op \in {"accept", "respond", "admin"}
               \/ log[id][k].op = "cancel"
                  /\ log[id][j].op \in {"accept", "respond", "admin"} )

\* the step returned an error response of handler op and left the store alone
Rejected(w, op) ==
    /\ response'.op = op
    /\ response'.result \in Results \ {"ok"}
    /\ calls'[w] = IdleCall
    /\ requests' = requests
    /\ owner' = owner

\* C11: a Cancel call on a request that is Approved, Rejected or Cancelled is
\* rejected with an error and leaves the request and all shift owners
\* unchanged
C11_CancelTerminalRejected ==
    [][\A w \in Workers, caller \in Staff, id \in Stored :
          (requests[id].status \in Terminal /\ cancel_fetch(w, caller, id))
              => Rejected(w, "cancel")]_vars

\* a Cancel by the requester has just been refused on a resolved request
C11_Witness ==
    /\ response = Response("cancel", "BadRequest")
    /\ \E id \in Stored : requests[id].status \in Terminal

\* C12: Accept on a request that is not Open, Respond on one that is not
\* Proposed and AdminDecision on one that is not PendingApproval fail with an
\* error; the request and every shift owner are as before the call
C12_WrongStateRejected ==
    [][\A w \in Workers, caller \in Staff, id \in Stored :
          /\ (requests[id].status # OPEN /\ accept_fetch(w, caller, id))
                => Rejected(w, "accept")
          /\ \A a \in BOOLEAN :
                (requests[id].status # PROPOSED /\ respond_fetch(w, caller, id, a))
                    => Rejected(w, "respond")
          /\ (requests[id].status # PENDING_APPROVAL /\ admin_fetch(w, caller, id))
                => Rejected(w, "admin")]_vars

\* a permitted caller's AdminDecision has just been refused on a request
\* that already has a candidate but is not pending approval
C12_Witness ==
    /\ response = Response("admin", "BadRequest")
    /\ \E id \in Stored : /\ requests[id].status # PENDING_APPROVAL
                          /\ requests[id].candidate_id # NULL

\* ------------------------------------------------------------------ C13
\* the worker's transaction is open: it has issued at least one statement
TxOpen(w) == DOMAIN calls[w].txreq # {} \/ DOMAIN calls[w].txown # {}

\* the writes a settling transaction has to make visible together
SettlingWrites(c) ==
    /\ {"status", "resolved_by", "resolved_at"} \subseteq DOMAIN c.txreq
    /\ c.txreq.status = APPROVED
    /\ c.shift \in DOMAIN c.txown
    /\ c.tshift # NULL => c.tshift \in DOMAIN c.txown

\* C13: a settling transition is all or nothing. A statement issued inside
\* the transaction of Accept (auto-approve), Respond (auto-approve) or
\* AdminDecision (approve) changes neither the stored request nor any shift's
\* owner; a failing statement or a failing commit returns the error with the
\* stored request and both owners as they were; and the one step that changes
\* them, the commit, writes the status, the resolution fields and every owner
\* of the swap at once.
C13_SettlementAtomic ==
    [][\A w \in Workers :
          /\ (calls[w].pc \in {"swap", "swap2", "resolve", "update", "commit"}
              /\ calls'[w] # calls[w] /\ ~tx_commit(w))
                 => (requests' = requests /\ owner' = owner)
          /\ (TxOpen(w) /\ db_error(w))
                 => /\ requests' = requests /\ owner' = owner
                    /\ response'.result = "Internal"
                    /\ ~TxOpen(w)'
          /\ (tx_commit(w) /\ requests'[calls[w].req].status = APPROVED)
                 => /\ SettlingWrites(calls[w])
                    /\ \A s \in DOMAIN calls[w].txown :
                          owner'[s] = calls[w].txown[s]
                    /\ requests'[calls[w].req].resolved_by = calls[w].caller
          /\ (owner' # owner) => \E v \in Workers : tx_commit(v)]_vars

\* every statement of a settling transaction with two shifts has been issued
\* and none of its writes is visible; the commit may still fail
C13_Witness ==
    \E w \in Workers :
       /\ calls[w].pc = "commit"
       /\ SettlingWrites(calls[w])
       /\ calls[w].tshift # NULL
       /\ requests[calls[w].req].status # APPROVED
       /\ requests[calls[w].req].resolved_at = NULL
       /\ \A s \in DOMAIN calls[w].txown : owner[s] # calls[w].txown[s]
       /\ ENABLED db_error(w)

\* ------------------------------------------------------------------ C14
\* C14: a call re-issued after the original committed is rejected. No request
\* has two committed writes of the same operation by the same caller with the
\* same outcome of which the later one was invoked, and read the request,
\* after the earlier one had committed.
C14_ReissueRejected ==
    \A id \in Stored : \A j, k \in 1..Len(log[id]) :
       (/\ j < k
        /\ log[id][j].op \in {"accept", "respond", "admin", "cancel"}
        /\ log[id][k].op = log[id][j].op
        /\ log[id][k].caller = log[id][j].caller
        /\ log[id][k].to = log[id][j].to)
           => log[id][k].since < j

update_shift(w, caller, uuid, user_profile_id) ==
    /\ Invoke(w)
    /\ IF ~has_permission_by_name(caller)
       THEN /\ response' = Response("update_shift", "Forbidden")
            /\ owner' = owner
       ELSE /\ ~ShiftLocked(uuid, w)
            /\ owner' = [owner EXCEPT ![uuid] = user_profile_id]
            /\ response' = Response("update_shift", "ok")
    /\ UNCHANGED <<requests, autoApprove, calls, log, pinvars>>

NextEnv ==
    \/ Next
    \/ \E w \in Workers, caller \in Staff, s \in Shifts, u \in Staff :
          update_shift(w, caller, s, u)

\* the marketplace handlers together with the rota editor
SpecEnv == Init /\ [][NextEnv]_vars

\* C16: at the instant a request is committed its requester owns its shift:
\* every INSERT of create_shift_request is made while the caller is the owner
\* of shift_id, whatever happened between the ownership check and the insert.
C16_RequesterOwnsAtCommit ==
    [][\A w \in Workers, ts \in OfferedShifts, n \in CreateNotes :
          create_insert(w, ts, n) => owner[calls[w].shift] = calls[w].caller]_vars

\* ------------------------------------------------------------------ C17
\* C17: every stored SWAP request has a target user and every stored
\* GIVE_AWAY request has none.
C17_TargetMatchesKind ==
    \A id \in Stored :
       /\ requests[id].type = "SWAP" => requests[id].target_user_id # NULL
       /\ requests[id].type = "GIVE_AWAY" => requests[id].target_user_id = NULL

\* ------------------------------------------------------------------ C18
\* C18 as stated: a request that is OPEN or PROPOSED and has no candidate has
\* no target_shift_id.
C18_NoTargetShiftBeforeCandidate ==
    \A id \in Stored :
       (requests[id].status \in {OPEN, PROPOSED} /\ requests[id].candidate_id = NULL)
           => requests[id].target_shift_id = NULL

\* C18: Create stores the target_shift_id of its input, absent when the input
\* has none; while a request is OPEN or PROPOSED it has no candidate and its
\* target_shift_id is the one Create stored.
C18_TargetShiftFromCreate ==
    [][/\ \A w \in Workers, ts \in OfferedShifts, n \in CreateNotes :
             create_insert(w, ts, n) =>
                /\ requests'[Len(requests) + 1].target_shift_id = ts
                /\ requests'[Len(requests) + 1].candidate_id = NULL
       /\ \A id \in Stored :
             requests'[id].status \in {OPEN, PROPOSED} =>
                /\ requests'[id].target_shift_id = requests[id].target_shift_id
                /\ requests'[id].candidate_id = NULL]_vars

\* a request nobody has accepted or responded to carries the shift offered
\* in its Create
C18_Witness ==
    \E id \in Stored :
       /\ requests[id].status \in {OPEN, PROPOSED}
       /\ requests[id].candidate_id = NULL
       /\ requests[id].target_shift_id # NULL
       /\ log[id] = <<>>

\* ------------------------------------------------------------------ C19
\* C19: for every stored request resolved_by is set exactly when resolved_at
\* is set, and both are set exactly when the status is APPROVED, REJECTED or
\* CANCELLED.
C19_ResolvedIffTerminal ==
    \A id \in Stored :
       /\ requests[id].resolved_by # NULL <=> requests[id].resolved_at # NULL
       /\ requests[id].resolved_by # NULL <=> requests[id].status \in Terminal

\* ------------------------------------------------------------------ C20
\* C20: a call by a caller who lacks the authority for it (Create by a caller
\* who does not own the shift, Respond by a caller who is not the target user,
\* AdminDecision by a caller without can_edit_rota, Cancel by a caller who is
\* not the requester) is rejected and changes no request and no shift owner,
\* and so does every call answered Forbidden; every committed Respond was made
\* by the target user of its request and every committed Cancel by its
\* requester.
C20_UnauthorizedChangesNothing ==
    [][/\ ncalls' # ncalls => \A w \in Workers, caller \in Staff :
             /\ \A s \in Shifts, t \in RequestTypes, u \in TargetUsers :
                   (owner[s] # caller /\ create_check(w, caller, s, t, u))
                       => Rejected(w, "create")
             /\ \A id \in Stored :
                   /\ \A a \in BOOLEAN :
                         (requests[id].target_user_id # caller
                          /\ respond_fetch(w, caller, id, a))
                             => Rejected(w, "respond")
                   /\ (~has_permission_by_name(caller) /\ admin_fetch(w, caller, id))
                         => Rejected(w, "admin")
                   /\ (requests[id].requester_id # caller /\ cancel_fetch(w, caller, id))
                         => Rejected(w, "cancel")
       /\ response'.result = "Forbidden" => (requests' = requests /\ owner' = owner)
       /\ \A id \in 1..Len(requests') : \A k \in 1..Len(log'[id]) :
             /\ log'[id][k].op = "respond"
                   => log'[id][k].caller = requests'[id].target_user_id
             /\ log'[id][k].op = "cancel"
                   => log'[id][k].caller = requests'[id].requester_id]_vars

\* a Respond by someone other than the target user of a PROPOSED request has
\* just been answered Forbidden
C20_Witness ==
    /\ response = Response("respond", "Forbidden")
    /\ \E id \in Stored : /\ requests[id].status = PROPOSED
                          /\ requests[id].candidate_id = NULL

\* ------------------------------------------------------- read projections
\* the most requests a store listed by the views holds
MaxListed == 2

\* the roleId / userId query parameters; no shift has role "R2"
QueryRoles == {NULL, "R1", "R2"}

QueryUsers == {NULL, "A", "B"}

\* who sends the query: A lacks can_edit_rota, B holds it
ViewCallers == {"A", "B"}

ViewOps == {"open", "my", "incoming", "approvals", "dashboard"}

\* extractors/permissions.rs has_permission(.., can_edit_rota)
has_permission(profile_id) ==
    profile_id \in SuperAdmins \/ profile_id \in EditRotaStaff

\* a stored row as create_shift_request inserts it
NewRow(shift_id, requester_id, type, status, target_user_id, target_shift_id) ==
    [shift_id |-> shift_id, requester_id |-> requester_id, type |-> type,
     status |-> status, target_user_id |-> target_user_id,
     target_shift_id |-> target_shift_id, candidate_id |-> NULL,
     resolved_by |-> NULL, resolved_at |-> NULL, notes |-> NULL]

\* rows the handlers store while no request has been approved: A's give-away
\* of S1, as created and as accepted by B, and B's swap of S2 proposed to A
ListedRows ==
    LET openA == NewRow("S1", "A", "GIVE_AWAY", OPEN, NULL, NULL)
        propB == NewRow("S2", "B", "SWAP", PROPOSED, "A", "S1")
    IN  {openA, propB,
         [openA EXCEPT !.status = PENDING_APPROVAL, !.candidate_id = "B"]}

ListedStores == UNION {[1..n -> ListedRows] : n \in 0..MaxListed}

\* a store of requests none of which is settled, no call in flight
InitViews ==
    /\ requests \in ListedStores
    /\ owner = [s \in Shifts |-> IF s = "S1" THEN "A" ELSE "B"]
    /\ autoApprove = [r \in Roles |-> FALSE]
    /\ calls = [w \in Workers |-> IdleCall]
    /\ response = NoResponse
    /\ log = [r \in 1..MaxListed |-> <<>>]
    /\ ncalls = 0
    /\ clock = 0 /\ token = <<>> /\ issued = NotIssued

\* Json(Vec<ShiftRequestWithDetails>): the ids of the rows in the order returned
Listing(op, rows) == [op |-> op, result |-> "ok", rows |-> rows]

Reverse(s) == [i \in 1..Len(s) |-> s[Len(s) + 1 - i]]

\* SELECT ... WHERE Matches ORDER BY sr.created_at ASC: created_at is set by
\* the INSERT, so rows are created in the order of their ids
SelectAsc(ids) ==
    SelectSeq([i \in 1..Len(requests) |-> i], LAMBDA i : i \in ids)

SelectDesc(ids) == Reverse(SelectAsc(ids))

\* AND s.role_id = $1 when roleId is given
RoleMatches(id, role_id) ==
    role_id = NULL \/ ShiftRole(requests[id].shift_id) = role_id


Fetched_clearsStore(op, rows) ==
    /\ response' \in {Listing(op, rows), Response(op, "Internal")}
    /\ requests' = <<>>
    /\ UNCHANGED <<owner, autoApprove, calls, log, pinvars>>

\* fetch_all(&state.db).await?: the rows, or the database error
Fetched(op, rows) ==
    /\ response' \in {Listing(op, rows), Response(op, "Internal")}
    /\ UNCHANGED <<requests, owner, autoApprove, calls, log, pinvars>>

\* the view returns an error before its SELECT
Refused(op, res) ==
    /\ response' = Response(op, res)
    /\ UNCHANGED <<requests, owner, autoApprove, calls, log, pinvars>>

\* GET /api/marketplace/open?roleId=
get_open_requests(w, role_id) ==
    /\ Invoke(w)
    /\ Fetched("open", SelectDesc({id \in DOMAIN requests :
                       /\ requests[id].status = OPEN
                       /\ RoleMatches(id, role_id)}))

\* GET /api/marketplace/my?userId= (the handler has no AuthenticatedUser:
\* caller is whoever sends the query)
get_my_requests(w, caller, user_id) ==
    /\ Invoke(w)
    /\ IF user_id = NULL
       THEN Refused("my", "BadRequest")
       ELSE Fetched("my", SelectDesc({id \in DOMAIN requests :
                              requests[id].requester_id = user_id}))

\* GET /api/marketplace/incoming?userId= (no AuthenticatedUser either)
get_incoming_requests(w, caller, user_id) ==
    /\ Invoke(w)
    /\ IF user_id = NULL
       THEN Refused("incoming", "BadRequest")
       ELSE Fetched("incoming", SelectDesc({id \in DOMAIN requests :
                       /\ requests[id].target_user_id = user_id
                       /\ requests[id].status \in {PROPOSED, "PEER_ACCEPTED"}}))


get_approval_requests_newestFirst(w, caller, role_id) ==
    /\ Invoke(w)
    /\ IF ~has_permission(caller)
       THEN Refused("approvals", "Forbidden")
       ELSE Fetched("approvals", SelectDesc({id \in DOMAIN requests :
                       /\ requests[id].status = PENDING_APPROVAL
                       /\ RoleMatches(id, role_id)}))

\* GET /api/marketplace/approvals?roleId=
get_approval_requests(w, caller, role_id) ==
    /\ Invoke(w)
    /\ IF ~has_permission(caller)
       THEN Refused("approvals", "Forbidden")
       ELSE Fetched("approvals", SelectAsc({id \in DOMAIN requests :
                       /\ requests[id].status = PENDING_APPROVAL
                       /\ RoleMatches(id, role_id)}))

\* SELECT COUNT(*) ... WHERE Matches
Count(ids) == Len(SelectAsc(ids))

\* GET /api/marketplace/dashboard?userId=: the first of its three counts
get_dashboard_open(w, caller, user_id) ==
    /\ Invoke(w)
    /\ IF user_id = NULL
       THEN Return(w, "dashboard", "BadRequest")
       ELSE Proceed(w, [IdleCall EXCEPT
                !.op = "dashboard", !.pc = "my", !.user_id = user_id,
                !.counts = <<Count({id \in DOMAIN requests :
                                requests[id].status = OPEN})>>])
    /\ UNCHANGED <<requests, owner, autoApprove, log, pinvars>>

\* SELECT COUNT(*) FROM "ShiftRequests" WHERE requester_id = $1
get_dashboard_my(w) ==
    /\ calls[w].op = "dashboard" /\ calls[w].pc = "my"
    /\ LET c == calls[w]
       IN  Proceed(w, [c EXCEPT !.pc = "incoming",
                 !.counts = Append(@, Count({id \in DOMAIN requests :
                                requests[id].requester_id = c.user_id}))])
    /\ UNCHANGED <<requests, owner, autoApprove, log, ncalls, pinvars>>

\* SELECT COUNT(*) ... WHERE target_user_id = $1 AND status IN (...); Ok(Json)
get_dashboard_incoming(w) ==
    /\ calls[w].op = "dashboard" /\ calls[w].pc = "incoming"
    /\ LET c == calls[w]
           incoming_count == Count({id \in DOMAIN requests :
                /\ requests[id].target_user_id = c.user_id
                /\ requests[id].status \in {PROPOSED, "PEER_ACCEPTED"}})
       IN  /\ calls' = [calls EXCEPT ![w] = IdleCall]
           /\ response' = [op |-> "dashboard", result |-> "ok",
                           counts |-> Append(c.counts, incoming_count)]
    /\ UNCHANGED <<requests, owner, autoApprove, log, ncalls, pinvars>>

ListedIds == 1..MaxListed

NextViews ==
    \/ \E w \in Workers, r \in QueryRoles : get_open_requests(w, r)
    \/ \E w \in Workers, caller \in ViewCallers, u \in QueryUsers :
          get_my_requests(w, caller, u)
    \/ \E w \in Workers, caller \in ViewCallers, u \in QueryUsers :
          get_incoming_requests(w, caller, u)
    \/ \E w \in Workers, caller \in ViewCallers, r \in QueryRoles :
          get_approval_requests(w, caller, r)
    \/ \E w \in Workers, caller \in ViewCallers, u \in QueryUsers :
          get_dashboard_open(w, caller, u)
    \/ \E w \in Workers : get_dashboard_my(w)
    \/ \E w \in Workers : get_dashboard_incoming(w)
    \/ \E w \in Workers, caller \in ViewCallers, id \in ListedIds :
          admin_fetch(w, caller, id)
    \/ \E w \in Workers, n \in NoteTexts : admin_approve(w, n)
    \/ \E w \in Workers, n \in NoteTexts : admin_reject(w, n)
    \/ \E w \in Workers : db_error(w)

\* the read projections and the admin decision over a store of requests
SpecViews == InitViews /\ [][NextViews]_vars

\* ------------------------------------------------------------------ C27
\* a step of one of the five read projections: a view returns its rows or
\* its error, or get_dashboard is taken in or goes on to its next count
ViewStep ==
    \/ response'.op \in ViewOps
    \/ \E w \in Workers : calls'[w].op = "dashboard" /\ calls'[w] # calls[w]

\* C27: every step of ListOpen, ListMine, ListIncoming, ListPendingApproval
\* and DashboardCounts, with any argument, returning rows or an error, leaves
\* every request and every shift as it was.
C27_ViewsChangeNothing ==
    [][ViewStep => (requests' = requests /\ owner' = owner
                    /\ autoApprove' = autoApprove /\ log' = log)]_vars

\* a view has just listed a stored request
C27_Witness ==
    /\ response.op \in {"open", "my", "incoming", "approvals"}
    /\ "rows" \in DOMAIN response
    /\ Len(response.rows) > 0
    /\ Len(requests) > 0

\* ------------------------------------------------------------------ C21
\* C21: for a caller without can_edit_rota who is not a super admin,
\* AdminDecision answers Forbidden for every request id, stored or not, and
\* every stored status and candidate, and ListPendingApproval answers
\* Forbidden with no rows; the answer is the same in every store, and the
\* store is unchanged.
C21_ForbiddenWhateverTheStore ==
    [][\A w \in Workers, caller \in Staff :
          ~(has_permission_by_name(caller) \/ has_permission(caller)) =>
             /\ \A id \in ListedIds :
                   admin_fetch(w, caller, id) =>
                      /\ response' = Response("admin", "Forbidden")
                      /\ requests' = requests /\ owner' = owner
             /\ \A r \in QueryRoles :
                   get_approval_requests(w, caller, r) =>
                      /\ response' = Response("approvals", "Forbidden")
                      /\ requests' = requests /\ owner' = owner]_vars

\* AdminDecision has just answered Forbidden although a request waits for
\* approval
C21_Witness ==
    /\ response = Response("admin", "Forbidden")
    /\ \E id \in Stored : requests[id].status = PENDING_APPROVAL

\* ------------------------------------------------------------------ C22
\* C22: when the role of the shift does not auto-approve, the commit of an
\* Accept on a request that is OPEN returns success, stores PENDING_APPROVAL
\* with the caller, who is not the requester, as candidate, leaves
\* resolved_by and resolved_at absent and leaves the owner of every shift,
\* shift_id and the offered shift included, as it was.
C22_AcceptWaitsForApproval ==
    [][\A w \in Workers, ts \in OfferedShifts :
          (/\ accept_write(w, ts)
           /\ ~calls[w].auto
           /\ requests[calls[w].req].status = OPEN)
             => LET id == calls[w].req
                IN  /\ response' = Response("accept", "ok")
                    /\ requests'[id].status = PENDING_APPROVAL
                    /\ requests'[id].candidate_id = calls[w].caller
                    /\ calls[w].caller # requests[id].requester_id
                    /\ requests'[id].target_shift_id = ts
                    /\ requests'[id].resolved_by = NULL
                    /\ requests'[id].resolved_at = NULL
                    /\ owner' = owner]_vars

\* an Accept offering a shift has just left a request waiting for approval,
\* both shifts still with their owners
C22_Witness ==
    /\ response = Response("accept", "ok")
    /\ \E id \in Stored :
          /\ requests[id].status = PENDING_APPROVAL
          /\ requests[id].target_shift_id # NULL
          /\ requests[id].resolved_by = NULL
          /\ owner[requests[id].shift_id] = requests[id].requester_id
          /\ owner[requests[id].target_shift_id] = requests[id].candidate_id

\* ------------------------------------------------------------------ C23
\* C23: when the role auto-approves, the commit of the target user's
\* Respond(accept) on a PROPOSED swap that offers another shift stores
\* APPROVED with the target user as candidate and resolver, and in that same
\* step the request's shift goes to the target user and the offered shift to
\* the requester.
C23_AutoApprovedSwap ==
    [][\A w \in Workers :
          (/\ respond_write(w)
           /\ calls[w].auto
           /\ requests[calls[w].req].status = PROPOSED
           /\ calls[w].tshift \notin {NULL, calls[w].shift})
             => LET id == calls[w].req
                    r == requests[id]
                IN  /\ response' = Response("respond", "ok")
                    /\ requests'[id].status = APPROVED
                    /\ calls[w].caller = r.target_user_id
                    /\ requests'[id].candidate_id = r.target_user_id
                    /\ requests'[id].resolved_by = r.target_user_id
                    /\ requests'[id].resolved_at # NULL
                    /\ requests'[id].target_shift_id = r.target_shift_id
                    /\ owner'[r.shift_id] = r.target_user_id
                    /\ owner'[r.target_shift_id] = r.requester_id]_vars

\* A's swap of S1 for B's S2 has just been approved by B's Respond
C23_Witness ==
    /\ response = Response("respond", "ok")
    /\ \E id \in Stored :
          /\ requests[id].type = "SWAP" /\ requests[id].status = APPROVED
          /\ requests[id].requester_id = "A" /\ requests[id].candidate_id = "B"
          /\ requests[id].shift_id = "S1" /\ requests[id].target_shift_id = "S2"
          /\ owner["S1"] = "B" /\ owner["S2"] = "A"
          /\ Len(log[id]) = 1

\* ------------------------------------------------------------------ C24
\* C24: the commit of a Cancel that found the request OPEN, PROPOSED or
\* PENDING_APPROVAL returns success, is made by the requester, stores
\* CANCELLED with the requester as resolver, and leaves candidate_id,
\* target_shift_id and the owner of every shift as they were.
C24_CancelFrame ==
    [][\A w \in Workers :
          (cancel_write(w) /\ calls[w].seen \in {OPEN, PROPOSED, PENDING_APPROVAL})
             => LET id == calls[w].req
                IN  /\ response' = Response("cancel", "ok")
                    /\ calls[w].caller = requests[id].requester_id
                    /\ requests'[id].status = CANCELLED
                    /\ requests'[id].resolved_by = requests[id].requester_id
                    /\ requests'[id].resolved_at # NULL
                    /\ requests'[id].candidate_id = requests[id].candidate_id
                    /\ requests'[id].target_shift_id = requests[id].target_shift_id
                    /\ owner' = owner]_vars

\* a request that had a candidate and an offered shift has just been
\* cancelled
C24_Witness ==
    /\ response = Response("cancel", "ok")
    /\ \E id \in Stored :
          /\ requests[id].status = CANCELLED
          /\ requests[id].resolved_by = requests[id].requester_id
          /\ requests[id].candidate_id # NULL
          /\ requests[id].target_shift_id # NULL

\* ------------------------------------------------------------------ C25
\* C25: the commit of a rejection, Respond(accept = false) by the target user
\* of a request found PROPOSED or AdminDecision(approve = false) by a caller
\* with can_edit_rota on a request found PENDING_APPROVAL, returns success,
\* stores REJECTED with the caller as resolver, and leaves candidate_id and
\* the owner of every shift as they were.
C25_RejectFrame ==
    [][\A w \in Workers :
          LET id == calls[w].req
              Rejects == /\ requests'[id].status = REJECTED
                         /\ requests'[id].resolved_by = calls[w].caller
                         /\ requests'[id].resolved_at # NULL
                         /\ requests'[id].candidate_id = requests[id].candidate_id
                         /\ owner' = owner
          IN  /\ (respond_reject(w) /\ calls[w].seen = PROPOSED)
                    => /\ Rejects
                       /\ response' = Response("respond", "ok")
                       /\ calls[w].caller = requests[id].target_user_id
              /\ \A n \in Notes :
                    (admin_reject(w, n) /\ calls[w].seen = PENDING_APPROVAL)
                       => /\ Rejects
                          /\ response' = Response("admin", "ok")
                          /\ has_permission_by_name(calls[w].caller)]_vars

\* an AdminDecision has just rejected a request that keeps its candidate
C25_Witness ==
    /\ response = Response("admin", "ok")
    /\ \E id \in Stored :
          /\ requests[id].status = REJECTED
          /\ requests[id].candidate_id # NULL
          /\ requests[id].resolved_by \in EditRotaStaff
          /\ owner[requests[id].shift_id] = requests[id].requester_id

\* ------------------------------------------------------------------ C26
\* C26: ListMine returns to a caller only requests whose requester is that
\* caller, and ListIncoming only requests whose target user is that caller.
C26_ViewsOnlyOwnRequests ==
    [][\A w \in Workers, caller \in ViewCallers, u \in QueryUsers :
          /\ (get_my_requests(w, caller, u) /\ "rows" \in DOMAIN response')
                => \A k \in 1..Len(response'.rows) :
                      requests[response'.rows[k]].requester_id = caller
          /\ (get_incoming_requests(w, caller, u) /\ "rows" \in DOMAIN response')
                => \A k \in 1..Len(response'.rows) :
                      requests[response'.rows[k]].target_user_id = caller]_vars

\* ------------------------------------------------------------------ C28
\* C28: for a caller with can_edit_rota the rows ListPendingApproval returns
\* are exactly the stored requests whose status is PENDING_APPROVAL, of the
\* given role when roleId is given, each once and the older before the
\* younger. AdminDecision does not look at that order: it decides any
\* request that waits for approval.
C28_ApprovalsOldestFirst ==
    [][\A w \in Workers, caller \in ViewCallers :
          /\ \A role_id \in QueryRoles :
                (/\ has_permission(caller)
                 /\ get_approval_requests(w, caller, role_id)
                 /\ response'.result = "ok")
                   => LET rows == response'.rows
                      IN  /\ {rows[k] : k \in 1..Len(rows)} =
                                {id \in Stored :
                                    /\ requests[id].status = PENDING_APPROVAL
                                    /\ role_id # NULL =>
                                          ShiftRole(requests[id].shift_id) = role_id}
                          /\ \A j, k \in 1..Len(rows) : j < k => rows[j] < rows[k]
          /\ \A id \in Stored :
                (/\ has_permission_by_name(caller)
                 /\ requests[id].status = PENDING_APPROVAL
                 /\ requests[id].candidate_id # NULL
                 /\ admin_fetch(w, caller, id))
                   => calls'[w].pc = "decide" /\ calls'[w].req = id]_vars

\* the younger of two requests has been decided while the older still waits,
\* and ListPendingApproval has just returned the older one
C28_Witness ==
    /\ response = Listing("approvals", <<1>>)
    /\ Len(requests) = 2
    /\ requests[1].status = PENDING_APPROVAL
    /\ requests[2].status \in {APPROVED, REJECTED}
    /\ Len(log[2]) = 1 /\ log[2][1].op = "admin"

\* ------------------------------------------------------ auth/pin_token.rs
\* text is a sequence of byte values
COLON == 58

PLUS == 43

MINUS == 45

ZERO == 48

PAD == 61

I32Max == 2147483647

\* 5 * 60 seconds
TokenLifetime == 300

RECURSIVE Digits(_)
\* the decimal digits of n >= 0
Digits(n) ==
    IF n < 10 THEN <<ZERO + n>>
    ELSE Append(Digits(n \div 10), ZERO + (n % 10))

\* format!("{}", n)
FormatInt(n) == IF n < 0 THEN <<MINUS>> \o Digits(-n) ELSE Digits(n)

IsDigit(c) == c \in ZERO..(ZERO + 9)

RECURSIVE DigitsValue(_)
DigitsValue(ds) ==
    IF ds = <<>> THEN 0
    ELSE 10 * DigitsValue(SubSeq(ds, 1, Len(ds) - 1)) + (ds[Len(ds)] - ZERO)

ParseErr == [ok |-> FALSE, value |-> 0]

\* str::parse::<i64>(): an optional sign, then one or more digits (the texts
\* enumerated here have at most four digits)
parse_i64(text) ==
    LET signed == text # <<>> /\ text[1] \in {PLUS, MINUS}
        ds == IF signed THEN Tail(text) ELSE text
    IN  IF ds = <<>> \/ \E i \in 1..Len(ds) : ~IsDigit(ds[i])
        THEN ParseErr
        ELSE [ok |-> TRUE,
              value |-> IF text[1] = MINUS THEN -DigitsValue(ds)
                        ELSE DigitsValue(ds)]

\* str::parse::<i32>()
parse_i32(text) ==
    LET p == parse_i64(text)
    IN  IF p.ok /\ (p.value > I32Max \/ p.value < -I32Max - 1)
        THEN ParseErr ELSE p

\* the alphabet of base64::engine::general_purpose::STANDARD
B64Char(i) ==
    IF i < 26 THEN 65 + i
    ELSE IF i < 52 THEN 97 + (i - 26)
    ELSE IF i < 62 THEN ZERO + (i - 52)
    ELSE IF i = 62 THEN PLUS ELSE 47

\* the value of a base64 character, -1 for any other byte
B64Index(c) ==
    IF c \in 65..90 THEN c - 65
    ELSE IF c \in 97..122 THEN c - 71
    ELSE IF IsDigit(c) THEN c + 4
    ELSE IF c = PLUS THEN 62
    ELSE IF c = 47 THEN 63 ELSE -1

RECURSIVE Encode(_)
\* STANDARD.encode(bytes): three bytes to four characters, padded with '='
Encode(b) ==
    IF b = <<>> THEN <<>>
    ELSE LET n == Len(b)
             x == b[1] * 65536 + (IF n >= 2 THEN b[2] ELSE 0) * 256
                  + (IF n >= 3 THEN b[3] ELSE 0)
             c1 == B64Char(x \div 262144)
             c2 == B64Char((x \div 4096) % 64)
             c3 == B64Char((x \div 64) % 64)
             c4 == B64Char(x % 64)
         IN  IF n = 1 THEN <<c1, c2, PAD, PAD>>
             ELSE IF n = 2 THEN <<c1, c2, c3, PAD>>
             ELSE <<c1, c2, c3, c4>> \o Encode(SubSeq(b, 4, n))

RECURSIVE RawDecode(_)
\* four characters to three bytes, fewer for a padded group
RawDecode(t) ==
    IF t = <<>> THEN <<>>
    ELSE LET v(k) == IF t[k] = PAD THEN 0 ELSE B64Index(t[k])
             x == v(1) * 262144 + v(2) * 4096 + v(3) * 64 + v(4)
             bytes == <<x \div 65536, (x \div 256) % 256, x % 256>>
             keep == IF t[3] = PAD THEN 1 ELSE IF t[4] = PAD THEN 2 ELSE 3
         IN  SubSeq(bytes, 1, keep) \o RawDecode(SubSeq(t, 5, Len(t)))

DecodeErr == [ok |-> FALSE, bytes |-> <<>>]

\* STANDARD.decode(token): the input must be canonical base64 with padding
Decode(t) ==
    IF \/ Len(t) % 4 # 0
       \/ \E i \in 1..Len(t) : t[i] # PAD /\ B64Index(t[i]) = -1
    THEN DecodeErr
    ELSE IF Encode(RawDecode(t)) = t
         THEN [ok |-> TRUE, bytes |-> RawDecode(t)]
         ELSE DecodeErr

\* String::from_utf8 succeeds on the bytes enumerated here exactly when all
\* are ASCII (the only other byte used is 0xFF, which no UTF-8 text holds)
from_utf8_ok(bytes) == \A i \in 1..Len(bytes) : bytes[i] < 128

RECURSIVE Split(_)
\* decoded.split(':').collect()
Split(text) ==
    IF \A i \in 1..Len(text) : text[i] # COLON THEN <<text>>
    ELSE LET i == CHOOSE k \in 1..Len(text) :
                     /\ text[k] = COLON
                     /\ \A j \in 1..(k - 1) : text[j] # COLON
         IN  <<SubSeq(text, 1, i - 1)>> \o Split(SubSeq(text, i + 1, Len(text)))

HexDigit(d) == IF d < 10 THEN ZERO + d ELSE 87 + d

RECURSIVE hex_encode(_)
\* hex::encode(bytes)
hex_encode(bytes) ==
    IF bytes = <<>> THEN <<>>
    ELSE <<HexDigit(Head(bytes) \div 16), HexDigit(Head(bytes) % 16)>>
         \o hex_encode(Tail(bytes))

\* HMAC-SHA256 taken as a keyed function without collisions: its code is the
\* key, with its length, followed by the data
HmacSha256(secret, data) == <<Len(secret)>> \o secret \o data

create_hmac_signature(data, secret) == hex_encode(HmacSha256(secret, data))

Join3(a, b, c) == a \o <<COLON>> \o b \o <<COLON>> \o c

\* generate_pin_token at time now
generate_pin_token(user_profile_id, secret, now) ==
    LET expiry_time == now + TokenLifetime
        payload == FormatInt(user_profile_id) \o <<COLON>> \o FormatInt(expiry_time)
        signature == create_hmac_signature(payload, secret)
    IN  Encode(payload \o <<COLON>> \o signature)

PinOk(user_profile_id) ==
    [op |-> "validate_pin_token", result |-> "ok",
     user_profile_id |-> user_profile_id]

PinErr(res) == Response("validate_pin_token", res)

\* validate_pin_token refusing a token from its last second on
validate_pin_token_expiresEarly(tok, secret, current_time) ==
    LET decoded == Decode(tok)
        parts == Split(decoded.bytes)
        user_profile_id == parse_i32(parts[1])
        expiry_time == parse_i64(parts[2])
        payload == FormatInt(user_profile_id.value) \o <<COLON>>
                   \o FormatInt(expiry_time.value)
    IN  IF ~decoded.ok THEN PinErr("Unauthorized")
        ELSE IF ~from_utf8_ok(decoded.bytes) THEN PinErr("Unauthorized")
        ELSE IF Len(parts) # 3 THEN PinErr("Unauthorized")
        ELSE IF ~user_profile_id.ok THEN PinErr("Unauthorized")
        ELSE IF ~expiry_time.ok THEN PinErr("Unauthorized")
        ELSE IF current_time >= expiry_time.value THEN PinErr("BadRequest")
        ELSE IF parts[3] # create_hmac_signature(payload, secret)
        THEN PinErr("Unauthorized")
        ELSE PinOk(user_profile_id.value)

\* validate_pin_token at time current_time
validate_pin_token(tok, secret, current_time) ==
    LET decoded == Decode(tok)
        parts == Split(decoded.bytes)
        user_profile_id == parse_i32(parts[1])
        expiry_time == parse_i64(parts[2])
        payload == FormatInt(user_profile_id.value) \o <<COLON>>
                   \o FormatInt(expiry_time.value)
    IN  IF ~decoded.ok THEN PinErr("Unauthorized")
        ELSE IF ~from_utf8_ok(decoded.bytes) THEN PinErr("Unauthorized")
        ELSE IF Len(parts) # 3 THEN PinErr("Unauthorized")
        ELSE IF ~user_profile_id.ok THEN PinErr("Unauthorized")
        ELSE IF ~expiry_time.ok THEN PinErr("Unauthorized")
        ELSE IF current_time > expiry_time.value THEN PinErr("BadRequest")
        ELSE IF parts[3] # create_hmac_signature(payload, secret)
        THEN PinErr("Unauthorized")
        ELSE PinOk(user_profile_id.value)

\* --------------------------------------------- the token's life, as a system
MaxClock == 302

\* staff ids a token is issued for
PinIds == {-1, 0, 7}

\* "k" and "s3"
Secrets == {<<107>>, <<115, 51>>}

\* the times at which calls are made: around the issue of a token and
\* around the end of its life
Times == {0, 1, TokenLifetime - 1, TokenLifetime, TokenLifetime + 1, MaxClock}

\* the fields of the token in hand, a signed one or one altered from it
TokenFields == Split(Decode(token).bytes)

\* texts an id field is rewritten to: another id, the same id spelled with a
\* sign or a leading zero, nothing, and "x"
AlteredIds ==
    {FormatInt(j) : j \in PinIds \ {issued.user_profile_id}}
    \cup {<<PLUS>> \o FormatInt(issued.user_profile_id),
          <<ZERO>> \o FormatInt(issued.user_profile_id), <<>>, <<120>>}

\* texts an expiry field is rewritten to: a later expiry, the same expiry
\* spelled with a sign or a leading zero, nothing, and "x"
AlteredExpiries ==
    {FormatInt(issued.expiry + 1000), <<PLUS>> \o FormatInt(issued.expiry),
     <<ZERO>> \o FormatInt(issued.expiry), <<>>, <<120>>}

\* inputs that are not the base64 code of three fields: "", "A", "_", the
\* codes of "7", "7:300", "7:300:ab:cd" and of the byte 0xFF with two colons,
\* and the code of "7:300:ab" with its padding removed
Malformed ==
    {<<>>, <<65>>, <<95>>,
     Encode(FormatInt(7)),
     Encode(FormatInt(7) \o <<COLON>> \o FormatInt(300)),
     Encode(Join3(FormatInt(7), FormatInt(300), <<97, 98>>) \o <<COLON, 99, 100>>),
     Encode(<<255, COLON, COLON>>),
     SubSeq(Encode(Join3(FormatInt(7), FormatInt(0), <<97>>)), 1, 7)}

InitPin ==
    /\ requests = <<>>
    /\ owner = [s \in Shifts |-> IF s = "S1" THEN "A" ELSE "B"]
    /\ autoApprove = [r \in Roles |-> FALSE]
    /\ calls = [w \in Workers |-> IdleCall]
    /\ response = NoResponse
    /\ log = [r \in RequestIds |-> <<>>]
    /\ ncalls = 0
    /\ clock = 0 /\ token = <<>> /\ issued = NotIssued

marketvars == <<requests, owner, autoApprove, calls, log, ncalls>>

\* verify_profile_identity issues a token for user_profile_id
issue_token(user_profile_id, secret) ==
    /\ token' = generate_pin_token(user_profile_id, secret, clock)
    /\ issued' = [user_profile_id |-> user_profile_id, secret |-> secret,
                  expiry |-> clock + TokenLifetime, made |-> "signed",
                  checked |-> <<>>]
    /\ response' = Response("generate_pin_token", "ok")
    /\ UNCHANGED <<marketvars, clock>>

\* time passes
tick(now) ==
    /\ now > clock
    /\ clock' = now
    /\ UNCHANGED <<marketvars, response, token, issued>>

\* the holder of a signed token rewrites its id field
alter_id(text) ==
    /\ issued.made = "signed"
    /\ token' = Encode(Join3(text, TokenFields[2], TokenFields[3]))
    /\ issued' = [issued EXCEPT !.made = "id_altered"]
    /\ response' = NoResponse
    /\ UNCHANGED <<marketvars, clock>>

\* the holder of a signed token rewrites its expiry field
alter_expiry(text) ==
    /\ issued.made = "signed"
    /\ token' = Encode(Join3(TokenFields[1], text, TokenFields[3]))
    /\ issued' = [issued EXCEPT !.made = "expiry_altered"]
    /\ response' = NoResponse
    /\ UNCHANGED <<marketvars, clock>>

\* a client presents an input of its own making
present(input) ==
    /\ token' = input
    /\ issued' = [issued EXCEPT !.made = "malformed"]
    /\ response' = NoResponse
    /\ UNCHANGED <<marketvars, clock>>

\* change_profile_pin validates the token in hand
check_token(secret) ==
    /\ response' = validate_pin_token(token, secret, clock)
    /\ issued' = [issued EXCEPT !.checked = secret]
    /\ UNCHANGED <<marketvars, clock, token>>

NextPin ==
    \/ \E id \in PinIds, secret \in Secrets : issue_token(id, secret)
    \/ \E now \in Times : tick(now)
    \/ \E text \in AlteredIds : alter_id(text)
    \/ \E text \in AlteredExpiries : alter_expiry(text)
    \/ \E input \in Malformed : present(input)
    \/ \E secret \in Secrets : check_token(secret)

SpecPin == InitPin /\ [][NextPin]_vars

\* the last call validated the token in hand (response is cleared when the
\* token changes hands or content)
Checked == response.op = "validate_pin_token"

PinTypeOK ==
    /\ clock \in 0..MaxClock
    /\ issued.made \in {"none", "signed", "id_altered", "expiry_altered",
                        "malformed"}
    /\ Checked => response.result \in {"ok", "Unauthorized", "BadRequest"}

\* C29: a token from generate_pin_token(id, secret), validated unchanged with
\* the same secret at a time not later than its expiry, yields exactly id
C29_RoundTrip ==
    (/\ Checked
     /\ issued.made = "signed"
     /\ issued.checked = issued.secret
     /\ clock <= issued.expiry)
    => response = PinOk(issued.user_profile_id)

\* a token for a negative id validated in the last second of its life
C29_Witness ==
    /\ Checked
    /\ issued.made = "signed"
    /\ issued.checked = issued.secret
    /\ issued.user_profile_id = -1
    /\ clock = issued.expiry
    /\ clock > 0
    /\ response = PinOk(-1)

\* C30: validate_pin_token returns an error, never a staff id, for a token
\* made with a different secret, for a token whose id or expiry field was
\* altered after signing, and for an input that is not the base64 code of
\* three colon-separated fields
C30_AlteredTokenRejected ==
    (/\ Checked
     /\ \/ issued.made \in {"id_altered", "expiry_altered", "malformed"}
        \/ issued.made = "signed" /\ issued.checked # issued.secret)
    => response.result # "ok"

\* ------------------------------------------------------------------ C31
\* the committed write the step adds to the log of request id, if it adds one
Committed(id) == Len(log'[id]) > Len(log[id])

\* the step commits a run of perform_shift_swap on behalf of request id
Settles(id) == Committed(id) /\ log'[id][Len(log'[id])].swap

\* C31: whenever a settlement reassigns shift_id to the candidate, the owner
\* of that shift immediately before the reassignment is the request's
\* requester_id.
C31_SettlesFromRequester ==
    [][\A id \in Stored :
          Settles(id) => owner[requests[id].shift_id] = requests[id].requester_id]_vars

\* ------------------------------------------------------------------ C32
\* C32: whenever a settlement reassigns target_shift_id to the requester, the
\* owner of that shift immediately before the reassignment is the request's
\* candidate_id.
C32_TargetShiftFromCandidate ==
    [][\A id \in Stored :
          (Settles(id) /\ requests'[id].target_shift_id # NULL)
              => owner[requests'[id].target_shift_id] = requests'[id].candidate_id]_vars

\* ------------------------------------------------------------------ C33
\* C33: a settlement changes the owner of at most two shifts, the request's
\* shift_id and (when set) its target_shift_id; the owner of every other
\* shift and every other request are unchanged by it.
C33_SettlementFrame ==
    [][\A id \in Stored :
          Settles(id) =>
             /\ \A s \in Shifts \ {requests'[id].shift_id,
                                   requests'[id].target_shift_id} :
                   owner'[s] = owner[s]
             /\ \A j \in Stored \ {id} : requests'[j] = requests[j]]_vars

\* ------------------------------------------------ the role editor (C34)
\* PUT /api/roles/{id} with marketplace_auto_approve: super admins only, one
\* UPDATE "Roles"
update_role(w, caller, role_id, marketplace_auto_approve) ==
    /\ Invoke(w)
    /\ IF caller \notin SuperAdmins
       THEN /\ response' = Response("update_role", "Forbidden")
            /\ autoApprove' = autoApprove
       ELSE /\ autoApprove' = [autoApprove EXCEPT ![role_id] = marketplace_auto_approve]
            /\ response' = Response("update_role", "ok")
    /\ UNCHANGED <<requests, owner, calls, log, pinvars>>

NextRole ==
    \/ Next
    \/ \E w \in Workers, caller \in Staff, r \in Roles, f \in BOOLEAN :
          update_role(w, caller, r, f)

\* the marketplace handlers together with the role editor
SpecRole == Init /\ [][NextRole]_vars

\* C34: whether an Accept or Respond(accept) ends in APPROVED or
\* PENDING_APPROVAL is decided by the auto-approve flag of the shift's role
\* as stored when the call commits; the outcome of AdminDecision does not
\* depend on the flag.
C34_FlagReadAtCommit ==
    [][\A w \in Workers :
          /\ ((\E ts \in OfferedShifts : accept_write(w, ts)) \/ respond_write(w))
                => requests'[calls[w].req].status
                      = IF autoApprove[ShiftRole(calls[w].shift)]
                        THEN APPROVED ELSE PENDING_APPROVAL
          /\ \A n \in Notes :
                /\ admin_approve(w, n) => requests'[calls[w].req].status = APPROVED
                /\ admin_reject(w, n) => requests'[calls[w].req].status = REJECTED]_vars

\* ------------------------------------------------------------------ C35
NextInbox ==
    \/ Next
    \/ \E w \in Workers, caller \in ViewCallers, u \in TargetUsers :
          get_incoming_requests(w, caller, u)
    \/ \E w \in Workers, caller \in ViewCallers, u \in TargetUsers :
          get_dashboard_open(w, caller, u)
    \/ \E w \in Workers : get_dashboard_my(w)
    \/ \E w \in Workers : get_dashboard_incoming(w)

\* the marketplace handlers together with the views of incoming proposals
SpecInbox == Init /\ [][NextInbox]_vars

\* the PROPOSED requests addressed to user_id
ProposedTo(user_id) ==
    {id \in Stored : /\ requests[id].target_user_id = user_id
                     /\ requests[id].status = PROPOSED}

\* C35: every request's status is one of OPEN, PROPOSED, PENDING_APPROVAL,
\* APPROVED, REJECTED, CANCELLED: no call stores PEER_ACCEPTED, so the rows
\* of ListIncoming and the incoming count of the dashboard are exactly the
\* PROPOSED requests addressed to the given staff id.
C35_IncomingIsProposed ==
    [][/\ \A id \in 1..Len(requests') : requests'[id].status \in Statuses
       /\ \A w \in Workers, caller \in ViewCallers, u \in TargetUsers \ {NULL} :
             (get_incoming_requests(w, caller, u) /\ response'.result = "ok")
                 => /\ {response'.rows[i] : i \in 1..Len(response'.rows)}
                          = ProposedTo(u)
                    /\ Len(response'.rows) = Cardinality(ProposedTo(u))
       /\ \A w \in Workers :
             get_dashboard_incoming(w)
                 => response'.counts[3] = Cardinality(ProposedTo(calls[w].user_id))]_vars

\* ListIncoming has just listed the proposal addressed to B while the
\* dashboard of B waits to count it
C35_Witness ==
    /\ response.op = "incoming" /\ response.result = "ok"
    /\ Len(response.rows) = 1
    /\ requests[response.rows[1]].status = PROPOSED
    /\ requests[response.rows[1]].target_user_id = "B"
    /\ \E w \in Workers : calls[w].op = "dashboard" /\ calls[w].pc = "incoming"

\* ------------------------------------------------------------------ C36
\* C36: for every request, id, shift_id, requester_id, type and
\* target_user_id keep the values given at creation through every step of
\* Accept, Respond, AdminDecision and Cancel, successful or not.
C36_CreationFieldsImmutable ==
    [][\A id \in Stored :
          /\ id \in 1..Len(requests')
          /\ requests'[id].shift_id = requests[id].shift_id
          /\ requests'[id].requester_id = requests[id].requester_id
          /\ requests'[id].type = requests[id].type
          /\ requests'[id].target_user_id = requests[id].target_user_id]_vars

\* a swap proposed to B has been accepted by B and approved by an admin, two
\* committed writes, and a further call on it has been refused
C36_Witness ==
    /\ response.result \in {"BadRequest", "Forbidden"}
    /\ \E id \in Stored :
          /\ Len(log[id]) = 2
          /\ log[id][1].op = "respond" /\ log[id][2].op = "admin"
          /\ requests[id].status = APPROVED
          /\ requests[id].type = "SWAP"
          /\ requests[id].requester_id = "A"
          /\ requests[id].shift_id = "S1"
          /\ requests[id].target_user_id = "B"

\* ------------------------------------------------------------------ C38
\* C38: every request whose status is PENDING_APPROVAL has a candidate, so
\* AdminDecision by a permitted caller on such a request goes on to its
\* decision, approving or rejecting, with that candidate: the no-candidate
\* check, made before the decision is looked at, never fails on it.
C38_PendingHasCandidate ==
    [][/\ \A id \in 1..Len(requests') :
             requests'[id].status = PENDING_APPROVAL
                 => requests'[id].candidate_id # NULL
       /\ \A w \in Workers, caller \in Staff, id \in Stored :
             (/\ admin_fetch(w, caller, id)
              /\ has_permission_by_name(caller)
              /\ requests[id].status = PENDING_APPROVAL)
                 => /\ calls'[w].pc = "decide"
                    /\ calls'[w].cand = requests[id].candidate_id
                    /\ calls'[w].cand # NULL
                    /\ response' = NoResponse
       /\ \A w \in Workers :
             calls'[w].pc = "decide" => calls'[w].cand # NULL]_vars

\* an admin has just rejected a swap that waited for approval with B, who had
\* responded to it, as its candidate
C38_Witness ==
    /\ response = Response("admin", "ok")
    /\ \E id \in Stored :
          /\ requests[id].status = REJECTED
          /\ requests[id].candidate_id = "B"
          /\ Len(log[id]) = 2
          /\ log[id][1].op = "respond" /\ log[id][1].to = PENDING_APPROVAL
          /\ log[id][2].op = "admin" /\ log[id][2].from = PENDING_APPROVAL

\* ------------------------------------------------------------------ C39
NextNotes ==
    \/ Next
    \/ \E w \in Workers, ts \in OfferedShifts, n \in NoteTexts :
          create_insert(w, ts, n)

\* the marketplace handlers with a Create that may carry notes
SpecNotes == Init /\ [][NextNotes]_vars

\* the operation of the write the step commits on request id
CommittedOp(id) == log'[id][Len(log'[id])].op

\* C39: a request's notes change only in Create and in the committed write of
\* an AdminDecision. Create stores the notes of its input; AdminDecision,
\* approving or rejecting, replaces the stored notes with the notes of the
\* decision and clears them when the decision has none; Accept, Respond and
\* Cancel leave the notes as they were.
C39_NotesFrame ==
    [][/\ \A w \in Workers, ts \in OfferedShifts, n \in Notes :
             create_insert(w, ts, n) => requests'[Len(requests) + 1].notes = n
       /\ \A id \in Stored :
             /\ requests'[id].notes # requests[id].notes
                   => (Committed(id) /\ CommittedOp(id) = "admin")
             /\ (Committed(id) /\ CommittedOp(id) \in {"accept", "respond", "cancel"})
                   => requests'[id].notes = requests[id].notes
             /\ \A w \in Workers, n \in Notes :
                   ((admin_approve(w, n) \/ admin_reject(w, n)) /\ calls[w].req = id)
                       => requests'[id].notes = n]_vars

\* a request created with notes has been accepted, its notes still those of
\* Create, and an admin's decision that supplies none is about to clear them
C39_Witness ==
    \E w \in Workers :
       /\ calls[w].op = "admin" /\ calls[w].pc = "decide"
       /\ requests[calls[w].req].notes = "n"
       /\ Len(log[calls[w].req]) = 1
       /\ log[calls[w].req][1].op = "accept"
       /\ ENABLED admin_reject(w, NULL)

\* ------------------------------------------------------------------ C40
\* C40: no step of Create, Accept, Respond, AdminDecision or Cancel removes a
\* request. The stored ids only grow, by the one id a Create assigns, and an
\* id always refers to the same request: its row keeps its requester, shift
\* and type and changes only by a write committed on that id.
C40_RequestsNeverRemoved ==
    [][/\ Len(requests') >= Len(requests)
       /\ Len(requests') > Len(requests)
             => /\ Len(requests') = Len(requests) + 1
                /\ response' = Response("create", "ok")
       /\ \A id \in Stored :
             /\ requests'[id].requester_id = requests[id].requester_id
             /\ requests'[id].shift_id = requests[id].shift_id
             /\ requests'[id].type = requests[id].type
             /\ requests'[id] # requests[id] => Committed(id)]_vars

\* a Cancel has just succeeded and the cancelled request is still stored
C40_Witness ==
    /\ response = Response("cancel", "ok")
    /\ \E id \in Stored :
          /\ requests[id].status = CANCELLED
          /\ log[id][Len(log[id])].op = "cancel"

\* ------------------------------------------- row locks and progress (C37)
\* who calls while locks are contended: A lacks can_edit_rota, B holds it
LiveCallers == {"A", "B"}

\* the stores the calls start from: the empty one, and A's swap of S1 for
\* S2, accepted by B and waiting for approval, next to B's swap of S2 for S1
\* proposed to A: the settlements of these two requests take the rows of S1
\* and S2 in opposite orders
LiveStores ==
    {<<>>,
     <<[NewRow("S1", "A", "SWAP", PENDING_APPROVAL, "B", "S2")
           EXCEPT !.candidate_id = "B"],
       NewRow("S2", "B", "SWAP", PROPOSED, "A", "S1")>>}

\* the store when the calls start; the role auto-approves (the request that
\* waits for approval was accepted before the flag was set)
InitLive ==
    /\ requests \in LiveStores
    /\ owner = [s \in Shifts |-> IF s = "S1" THEN "A" ELSE "B"]
    /\ autoApprove = [r \in Roles |-> TRUE]
    /\ calls = [w \in Workers |-> IdleCall]
    /\ response = NoResponse
    /\ log = [r \in 1..MaxListed |-> <<>>]
    /\ ncalls = 0
    /\ clock = 0 /\ token = <<>> /\ issued = NotIssued

\* the workers whose open transaction holds the row lock that the next
\* statement of w's open transaction asks for
WaitsFor(w) ==
    LET c == calls[w]
    IN  IF ~TxOpen(w) THEN {}
        ELSE IF c.pc = "swap"
        THEN {v \in Workers \ {w} : c.shift \in DOMAIN calls[v].txown}
        ELSE IF c.pc = "swap2"
        THEN {v \in Workers \ {w} : c.tshift \in DOMAIN calls[v].txown}
        ELSE IF c.pc = "update"
        THEN {v \in Workers \ {w} : calls[v].req = c.req
                                    /\ DOMAIN calls[v].txreq # {}}
        ELSE {}

RECURSIVE WaitChain(_, _)
\* the workers reached from those of S along at most n waits
WaitChain(S, n) ==
    IF n = 0 THEN S
    ELSE WaitChain(S \cup UNION {WaitsFor(v) : v \in S}, n - 1)

\* w waits, directly or through others, for a lock held by a transaction
\* that waits for w
Deadlocked(w) == w \in WaitChain(WaitsFor(w), NumWorkers)

\* lock waits without the deadlock detector of the database
deadlock_detected_off(w) ==
    /\ FALSE
    /\ UNCHANGED vars

\* PostgreSQL finds the cycle after deadlock_timeout and aborts one of its
\* transactions: the statement returns an error, `?` returns it, the
\* transaction is dropped and its locks are released
deadlock_detected(w) ==
    /\ Deadlocked(w)
    /\ Return(w, calls[w].op, "Internal")
    /\ UNCHANGED <<requests, owner, autoApprove, log, ncalls, pinvars>>

\* the next statement of the handler that worker w runs
Continue(w) ==
    \/ \E ts \in OfferedShifts, n \in CreateNotes : create_insert(w, ts, n)
    \/ accept_policy(w)
    \/ \E ts \in OfferedShifts : accept_tx_update(w, ts)
    \/ respond_policy(w)
    \/ respond_tx_update(w)
    \/ respond_reject(w)
    \/ tx_swap_first(w)
    \/ tx_swap_second(w)
    \/ tx_resolve(w)
    \/ \E n \in NoteTexts : admin_tx_update(w, n)
    \/ tx_commit(w)
    \/ \E n \in NoteTexts : admin_reject(w, n)
    \/ cancel_write(w)

NextLive ==
    \/ \E w \in Workers, caller \in LiveCallers, s \in Shifts, t \in RequestTypes,
          u \in TargetUsers : create_check(w, caller, s, t, u)
    \/ \E w \in Workers, caller \in LiveCallers, id \in ListedIds :
          accept_fetch(w, caller, id)
    \/ \E w \in Workers, caller \in LiveCallers, id \in ListedIds, a \in BOOLEAN :
          respond_fetch(w, caller, id, a)
    \/ \E w \in Workers, caller \in LiveCallers, id \in ListedIds :
          admin_fetch(w, caller, id)
    \/ \E w \in Workers, caller \in LiveCallers, id \in ListedIds :
          cancel_fetch(w, caller, id)
    \/ \E w \in Workers : Continue(w)
    \/ \E w \in Workers : deadlock_detected(w)
    \/ \E w \in Workers : db_error(w)

\* every handler that can issue its next statement does so, and a deadlock is
\* broken; a statement fails (db_error) only if the database makes it fail
Fairness ==
    /\ \A w \in Workers : WF_vars(Continue(w))
    /\ WF_vars(\E w \in Workers : deadlock_detected(w))

SpecLive == InitLive /\ [][NextLive]_vars /\ Fairness

====
